---- MODULE Spec2Model ----
(***************************************************************************)
(* Memory-management core of the os_practice teaching kernel: the physical *)
(* frame allocator (pmem), the Sv39 page-table walker and mapping engine   *)
(* (vm_getpte / vm_mappages / vm_unmappages) and the address-space         *)
(* lifecycle (create / destroy / duplicate).                               *)
(*                                                                         *)
(* The repository holds three lines of this code, kept apart by `variant`: *)
(*   "week3" : src/week3/whu-oslab-lab1            (pmem.c, vmem.c)        *)
(*   "sys"   : src/系统调用                         (pmem.c, kvm.c, uvm.c) *)
(*   "lab"   : src/系统调用（lab6) kvm.c, uvm.c with                       *)
(*             src/文件系统（lab7)/whu-oslab-lab6 pmem.c, proc.c           *)
(*                                                                         *)
(* Addresses are counted in units of 1024 bytes, so that the 38-bit        *)
(* virtual addresses fit the model checker's integers: PGSIZE (4096 bytes) *)
(* is 4 units.  A frame is 512 64-bit words; a frame's contents are a fill *)
(* word plus the words that differ from it.                                *)
(***************************************************************************)
EXTENDS Integers, Sequences, FiniteSets, TLC

\* ------------------------------------------------------------------ bounds
\* Frames given to the kernel region (KERN_PAGES / KERNEL_PAGES is 1024).
KernPages == 12
\* Frames given to the user region (ALLOC_END - kernel region end).
UserPages == 24
\* Calls made in one run of the allocator and the mapping engine.
MaxOps == 5
\* Calls made in one run of the life of address spaces.
MaxLife == 5
\* Calls made in one run of the life of processes
MaxProc == 6
\* Calls made in one run of the callers that do not align
MaxAlign == 4
MaxSys == 4
MaxFree == 3
MaxCopy == 7
MaxTop == 3
CopyOps == 1
MaxBufs == 3
\* Harts.
NCPU == 3
\* Slots of the process table.
NPROC == 2

\* --------------------------------------------------------------- constants
PGSIZE == 4
NPTE == 512
PTE_V == 1
PTE_R == 2
PTE_W == 4
PTE_X == 8
PTE_U == 16
PTE_G == 32
FLAGMASK == 1024
\* VA_MAX = 1 << 38 bytes (sys, lab); 0x7FFFFFFFFF bytes in week3, whose
\* last address unit is 2^29 - 1.
VA_MAX == 268435456
VA_MAX_week3 == 536870911
\* Linker symbols: the kernel image starts at KERNEL_BASE (0x80000000), the
\* trampoline page lies inside its text, the allocatable memory starts at
\* ALLOC_BEGIN.
KERNEL_BASE == 2097152
trampoline == KERNEL_BASE + PGSIZE
\* device registers (0x10000000, 0x02000000, 0x0c000000)
UART_BASE == 262144
CLINT_BASE == 32768
PLIC_BASE == 196608
ALLOC_BEGIN == KERNEL_BASE + 16 * PGSIZE

Variants == {"week3", "sys", "lab"}

\* ------------------------------------------------------------- arithmetic
PG_ROUND_UP(sz) == ((sz + PGSIZE - 1) \div PGSIZE) * PGSIZE
PG_ROUND_DOWN(a) == (a \div PGSIZE) * PGSIZE

RECURSIVE Pow(_, _)
Pow(b, n) == IF n = 0 THEN 1 ELSE b * Pow(b, n - 1)

\* bit `b` (a power of two) of the 10-bit flag field `x`
Bit(x, b) == (x \div b) % 2 = 1
FlagBits == {1, 2, 4, 8, 16, 32, 64, 128, 256, 512}
RECURSIVE SumSet(_)
SumSet(S) == IF S = {} THEN 0 ELSE LET x == CHOOSE y \in S : TRUE IN x + SumSet(S \ {x})
BitOr(a, b) == SumSet({f \in FlagBits : Bit(a, f) \/ Bit(b, f)})
BitAnd(a, b) == SumSet({f \in FlagBits : Bit(a, f) /\ Bit(b, f)})

\* ------------------------------------------------------------------ words
\* A 64-bit word of memory is one of
\*   0            the zero word (also the NULL pointer),
\*   w > 0        a plain value w: a page-table entry or a data word,
\*   Ptr(p)       the address p (in 1024-byte units) of a frame; its low ten
\*                bits are zero, so it has no flag set when read as an entry,
\*   Poison01     0x0101..01, the byte pmem_free fills a frame with (lab),
\*   PoisonAA     0xaaaa..aa, the byte week3's pmem_free fills a frame with.
Poison01 == -1
PoisonAA == -2
Ptr(p) == 0 - p
IsPtr(w) == w < PoisonAA
\* an address outside physical memory, where a poison word points
WildPa == PGSIZE
\* the address a word holds when it is used as a pointer
AsPtr(w) ==
    IF w = 0 THEN 0
    ELSE IF IsPtr(w) THEN 0 - w
    ELSE IF w < 0 THEN WildPa
    ELSE w \div FLAGMASK

PTE_FLAGS(pte) ==
    IF pte = Poison01 THEN 257
    ELSE IF pte = PoisonAA THEN 682
    ELSE IF IsPtr(pte) THEN 0
    ELSE pte % FLAGMASK
PA_TO_PTE(pa) == (pa \div PGSIZE) * FLAGMASK
PTE_TO_PA(pte) ==
    IF IsPtr(pte) THEN (0 - pte) * PGSIZE
    ELSE IF pte < 0 THEN WildPa
    ELSE (pte \div FLAGMASK) * PGSIZE
PteHas(pte, b) == Bit(PTE_FLAGS(pte), b)
PTE_CHECK(pte) == BitAnd(PTE_FLAGS(pte), PTE_R + PTE_W + PTE_X) = 0
PTE_IS_TABLE(pte) == BitAnd(PTE_FLAGS(pte), PTE_V + PTE_R + PTE_W + PTE_X) = PTE_V
VA_TO_VPN(va, level) == (va \div (PGSIZE * Pow(NPTE, level))) % NPTE
\* pte & ~flags, for a pte that is a frame number plus flags
PteClear(pte, flags) ==
    IF pte < 0 THEN pte
    ELSE (pte - PTE_FLAGS(pte)) + SumSet({f \in FlagBits : PteHas(pte, f) /\ ~Bit(flags, f)})

\* ----------------------------------------------------------------- frames
KernFrames == {ALLOC_BEGIN + PGSIZE * i : i \in 0..(KernPages - 1)}
UserBegin == ALLOC_BEGIN + KernPages * PGSIZE
UserFrames == {UserBegin + PGSIZE * i : i \in 0..(UserPages - 1)}
ALLOC_END == UserBegin + UserPages * PGSIZE
Frames == KernFrames \cup UserFrames \cup {trampoline}

NoWords == [i \in {} |-> 0]
Filled(w) == [fill |-> w, ov |-> NoWords]
RdW(c, i) == IF i \in DOMAIN c.ov THEN c.ov[i] ELSE c.fill
WrW(c, i, x) ==
    LET d == IF x = c.fill THEN DOMAIN c.ov \ {i} ELSE DOMAIN c.ov \cup {i}
    IN [c EXCEPT !.ov = [j \in d |-> IF j = i THEN x ELSE c.ov[j]] @@ NoWords]

VARIABLES
    variant,    \* which line of the code runs
    mem,        \* physical memory: frame address -> contents
    zone,       \* the two allocator regions: begin, end, list head, counter
    panicked,   \* "" while running, else the message of the panic that halted the core
    held,       \* frames the caller got from pmem_alloc and still owns as buffers
    procs,      \* the process table: state, root table, trap frame, layout
    kernel_pgtbl, \* the root of the kernel page table
    maps,       \* history: the mappings made and not yet unmapped or destroyed
    boot,       \* where each hart stands in main(), and the locals of hart 0
    nops,       \* calls the run may still make
    end,        \* the linker symbol `end`, the first address after the kernel image
    last,       \* the last call: its name, arguments and result
    out,        \* history: frames pmem_alloc handed out and pmem_free has not taken back
    twice,      \* history: frames pmem_alloc handed out while they were handed out already
    cpus,       \* the spinlocks, and where each hart stands inside pmem_alloc / pmem_free
    pool        \* the mmap records: list_head, the next fields, the records handed out

vars == <<variant, mem, zone, panicked, held, procs, kernel_pgtbl, maps, boot, nops, end, last, out, twice, cpus, pool>>

\* The machine state the kernel functions transform, with their return value.
NullPte == [f |-> 0, i |-> 0]
Machine == [variant |-> variant, end |-> end, mem |-> mem, zone |-> zone, panicked |-> panicked,
            out |-> out, twice |-> twice, ret |-> 0, pte |-> NullPte]
Halt(s, msg) == [s EXCEPT !.panicked = msg, !.ret = 0]
Running(s) == s.panicked = ""
\* A load or store through a pointer that is no frame of physical memory.
Fault(s) == Halt(s, "fault")
\* The value of x, computed once and handed to F.
Bind(x, F(_)) == CHOOSE r \in {F(t) : t \in {x}} : TRUE
\* Sequencing: the statements F that follow a call, skipped when the call has
\* halted the core.
Then(x, F(_)) == CHOOSE r \in {IF Running(t) THEN F(t) ELSE t : t \in {x}} : TRUE

ZoneOf(in_kernel) == IF in_kernel THEN "k" ELSE "u"

\* ------------------------------------------------------------------- pmem
\* The state pmem_init leaves.  Every variant threads the frames of a region
\* onto its list in ascending order by head insertion, so the list starts at
\* the highest frame.  week3 builds the lists by calling pmem_free, which
\* fills each frame with 0xaa and decrements the pages-used counter.
InitFill(v) == IF v = "week3" THEN PoisonAA ELSE 0
InitFrame(f, region, v) ==
    IF f = trampoline THEN Filled(KERNEL_BASE)
    ELSE LET below == f - PGSIZE
             nxt == IF below \in region THEN Ptr(below) ELSE 0
         IN WrW(Filled(InitFill(v)), 0, nxt)
RegionOf(f) == IF f \in KernFrames THEN KernFrames ELSE UserFrames
pmem_init_mem(v) == [f \in Frames |-> InitFrame(f, RegionOf(f), v)] @@ NoWords
pmem_init_zone(v) ==
    [k |-> [begin |-> ALLOC_BEGIN, end |-> UserBegin,
            head |-> IF KernPages = 0 THEN 0 ELSE UserBegin - PGSIZE,
            count |-> IF v = "week3" THEN 0 - KernPages ELSE KernPages],
     u |-> [begin |-> UserBegin, end |-> ALLOC_END,
            head |-> IF UserPages = 0 THEN 0 ELSE ALLOC_END - PGSIZE,
            count |-> IF v = "week3" THEN 0 - UserPages ELSE UserPages]]
\* the machine of line v, with the linker symbol `end` at e, after pmem_init
pmem_init(v, e) ==
    [variant |-> v, end |-> e, mem |-> pmem_init_mem(v), zone |-> pmem_init_zone(v),
     panicked |-> "", out |-> {}, twice |-> {}, ret |-> 0, pte |-> NullPte]

\* Unlink the list head `node` of zone z and hand it out.  `step` is what the
\* variant adds to its counter; `zero` tells whether the frame is cleared.
PopHead(s, z, node, step, zero) ==
    IF node \notin Frames THEN Fault(s)
    ELSE [s EXCEPT !.zone[z].head = AsPtr(RdW(s.mem[node], 0)),
                   !.zone[z].count = @ + step,
                   !.mem[node] = IF zero THEN Filled(0) ELSE @,
                   !.twice = IF node \in s.out THEN @ \cup {node} ELSE @,
                   !.out = @ \cup {node},
                   !.ret = node]

pmem_alloc_week3(s, in_kernel) ==
    LET z == ZoneOf(in_kernel)
        r == s.zone[z].head
    IN IF r = 0 THEN [s EXCEPT !.ret = 0] ELSE PopHead(s, z, r, 1, FALSE)

pmem_alloc_sys(s, in_kernel) ==
    LET z == ZoneOf(in_kernel)
    IN IF s.zone[z].count = 0 \/ s.zone[z].head = 0
       THEN Halt(s, "pmem_alloc: no available physical pages")
       ELSE PopHead(s, z, s.zone[z].head, 0 - 1, TRUE)

pmem_alloc_lab(s, in_kernel) ==
    LET z == ZoneOf(in_kernel)
        node == s.zone[z].head
    IN IF node = 0 THEN [s EXCEPT !.ret = 0] ELSE PopHead(s, z, node, 0 - 1, TRUE)

pmem_alloc(s, in_kernel) ==
    IF ~Running(s) THEN s
    ELSE CASE s.variant = "week3" -> pmem_alloc_week3(s, in_kernel)
           [] s.variant = "sys" -> pmem_alloc_sys(s, in_kernel)
           [] OTHER -> pmem_alloc_lab(s, in_kernel)

\* Fill the frame with `fill`, then push it on the list of zone z.
PushHead(s, z, page, fill, step) ==
    IF page \notin Frames THEN Fault(s)
    ELSE [s EXCEPT !.mem[page] = WrW(Filled(fill), 0, Ptr(s.zone[z].head)),
                   !.zone[z].head = page,
                   !.zone[z].count = @ + step,
                   !.out = @ \ {page},
                   !.ret = 0]

\* week3 only prints when the address is misaligned, out of memory or of the
\* other region, and goes on to push it on the list its tag names.
pmem_free_week3(s, pa, in_kernel) ==
    PushHead(s, ZoneOf(in_kernel), pa, PoisonAA, 0 - 1)

pmem_free_sys(s, page, in_kernel) ==
    LET z == ZoneOf(in_kernel)
    IN IF page % PGSIZE # 0
       THEN Halt(s, "pmem_free: physical address not page-aligned")
       ELSE IF page < s.zone[z].begin \/ page >= s.zone[z].end
       THEN Halt(s, "pmem_free: physical address out of region range")
       ELSE PushHead(s, z, page, 0, 1)

pmem_free_lab(s, page, in_kernel) ==
    LET z == ZoneOf(in_kernel)
    IN IF page % PGSIZE # 0
       THEN Halt(s, "pmem_free: invalid page address, not aligned to 4KB boundary")
       ELSE IF page < s.zone[z].begin \/ page >= s.zone[z].end
       THEN Halt(s, "pmem_free: invalid page address, out of target zone bounds")
       ELSE PushHead(s, z, page, Poison01, 1)

pmem_free(s, page, in_kernel) ==
    IF ~Running(s) THEN s
    ELSE CASE s.variant = "week3" -> pmem_free_week3(s, page, in_kernel)
           [] s.variant = "sys" -> pmem_free_sys(s, page, in_kernel)
           [] OTHER -> pmem_free_lab(s, page, in_kernel)

\* The nodes of a free list from its head, following the link stored in word
\* 0 of each node, cut after `n` nodes (a list with a cycle never ends).
RECURSIVE ListFrom(_, _, _)
ListFrom(m, head, n) ==
    IF head = 0 \/ head \notin Frames \/ n = 0 THEN <<>>
    ELSE <<head>> \o ListFrom(m, AsPtr(RdW(m[head], 0)), n - 1)
NFrames == KernPages + UserPages + 1
FreeList(z) == ListFrom(mem, zone[z].head, NFrames + 1)
Range(q) == {q[i] : i \in 1..Len(q)}
FreeSet(z) == Range(FreeList(z))


\* --------------------------------------------------------------- vm_getpte
\* a store through the returned pointer that never reaches the table
PteStore_lost(s, x) ==
    IF s.pte.f \notin Frames THEN Fault(s) ELSE s

\* *pte = x through the pointer vm_getpte returned
PteStore(s, x) ==
    IF s.pte.f \notin Frames THEN Fault(s)
    ELSE [s EXCEPT !.mem[s.pte.f] = WrW(@, s.pte.i, x)]
PteMapped(s) == s.pte.f \in Frames
PteLoad(s) == RdW(s.mem[s.pte.f], s.pte.i)

\* The descent all three vm_getpte share: from the table `pgtbl` of `level`
\* down to the level-0 entry of va.  A missing table is taken from the region
\* `in_kernel` names and linked with `flags`.
RECURSIVE Walk(_, _, _, _, _, _, _)
Walk(s, pgtbl, va, level, alloc, in_kernel, flags) ==
    IF ~Running(s) THEN s
    ELSE IF level = 0 THEN [s EXCEPT !.pte = [f |-> pgtbl, i |-> VA_TO_VPN(va, 0)]]
    ELSE IF pgtbl \notin Frames THEN Fault(s)
    ELSE IF PteHas(RdW(s.mem[pgtbl], VA_TO_VPN(va, level)), PTE_V)
    THEN Walk(s, PTE_TO_PA(RdW(s.mem[pgtbl], VA_TO_VPN(va, level))), va, level - 1,
              alloc, in_kernel, flags)
    ELSE IF ~alloc THEN [s EXCEPT !.pte = NullPte]
    ELSE Then(pmem_alloc(s, in_kernel), LAMBDA a :
             IF a.ret = 0 THEN [a EXCEPT !.pte = NullPte]
             ELSE Walk([a EXCEPT !.mem[a.ret] = Filled(0),
                                 !.mem[pgtbl] = WrW(@, VA_TO_VPN(va, level), PA_TO_PTE(a.ret) + flags)],
                       a.ret, va, level - 1, alloc, in_kernel, flags))

\* a walk that stops at the root and never asks for a table
vm_getpte_week3_top(s, pgtbl, va, alloc) ==
    [s EXCEPT !.pte = [f |-> pgtbl, i |-> VA_TO_VPN(va, 2)]]

vm_getpte_week3(s, pgtbl, va, alloc) == Walk(s, pgtbl, va, 2, alloc, TRUE, PTE_V + PTE_G)

vm_getpte_sys(s, pgtbl, va, alloc) == Walk(s, pgtbl, va, 2, alloc, TRUE, PTE_V)

vm_getpte_lab(s, pgtbl, va, alloc) ==
    IF va >= VA_MAX THEN Halt(s, "vm_getpte: virtual address too large")
    ELSE Walk(s, pgtbl, va, 2, alloc, FALSE, PTE_V)

vm_getpte(s, pgtbl, va, alloc) ==
    IF ~Running(s) THEN s
    ELSE CASE s.variant = "week3" -> vm_getpte_week3(s, pgtbl, va, alloc)
           [] s.variant = "sys" -> vm_getpte_sys(s, pgtbl, va, alloc)
           [] OTHER -> vm_getpte_lab(s, pgtbl, va, alloc)

\* -------------------------------------------------------------- vm_mappages
PermBits == PTE_R + PTE_W + PTE_X + PTE_U + PTE_G

RECURSIVE MapLoop_week3(_, _, _, _, _, _, _)
MapLoop_week3(s, pgtbl, va, pa, len, perm, i) ==
    IF ~Running(s) \/ i >= len THEN s
    ELSE Then(vm_getpte_week3(s, pgtbl, va + i, TRUE), LAMBDA g :
             IF g.pte = NullPte THEN Halt(g, "vm_mappages: vm_getpte failed")
             ELSE MapLoop_week3(PteStore(g, PA_TO_PTE(pa + i) + BitOr(perm, PTE_V)),
                                pgtbl, va, pa, len, perm, i + PGSIZE))

vm_mappages_week3(s, pgtbl, va, pa, len, perm) ==
    IF va % PGSIZE # 0 \/ pa % PGSIZE # 0 \/ len % PGSIZE # 0
    THEN Halt(s, "vm_mappages: addresses or length not page-aligned")
    ELSE IF BitAnd(perm, (FLAGMASK - 1) - PermBits) # 0
    THEN Halt(s, "vm_mappages: invalid permissions")
    ELSE MapLoop_week3(s, pgtbl, va, pa, len, perm, 0)

RECURSIVE MapLoop_sys(_, _, _, _, _, _)
MapLoop_sys(s, pgtbl, map_start, map_end, pa, perm) ==
    Then(vm_getpte_sys(s, pgtbl, map_start, TRUE), LAMBDA g :
        IF g.pte = NullPte THEN Halt(g, "vm_mappages: fail to get valid pte")
        ELSE IF ~PteMapped(g) THEN Fault(g)
        ELSE IF PteHas(PteLoad(g), PTE_V) THEN Halt(g, "vm_mappages: virtual address already mapped")
        ELSE IF map_start = map_end THEN PteStore(g, PA_TO_PTE(pa) + BitOr(perm, PTE_V))
        ELSE MapLoop_sys(PteStore(g, PA_TO_PTE(pa) + BitOr(perm, PTE_V)),
                         pgtbl, map_start + PGSIZE, map_end, pa + PGSIZE, perm))

vm_mappages_sys(s, pgtbl, va, pa, len, perm) ==
    IF len <= 0 THEN Halt(s, "vm_mappages: invalid len (len <= 0)")
    ELSE IF va % PGSIZE # 0 \/ pa % PGSIZE # 0 THEN Halt(s, "vm_mappages: va or pa not page-aligned")
    ELSE IF va + len > VA_MAX THEN Halt(s, "vm_mappages: va + len exceed VA_MAX")
    ELSE MapLoop_sys(s, pgtbl, PG_ROUND_DOWN(va), PG_ROUND_DOWN(va + len - 1), pa, perm)

RECURSIVE MapLoop_lab(_, _, _, _, _, _)
MapLoop_lab(s, pgtbl, current_va, end_va, pa, perm) ==
    Then(vm_getpte_lab(s, pgtbl, current_va, TRUE), LAMBDA g :
        IF g.pte = NullPte THEN Halt(g, "vm_mappages: failed to get PTE")
        ELSE IF current_va = end_va THEN PteStore(g, PA_TO_PTE(pa) + BitOr(perm, PTE_V))
        ELSE MapLoop_lab(PteStore(g, PA_TO_PTE(pa) + BitOr(perm, PTE_V)),
                         pgtbl, current_va + PGSIZE, end_va, pa + PGSIZE, perm))

vm_mappages_lab(s, pgtbl, va, pa, len, perm) ==
    IF len = 0 THEN Halt(s, "vm_mappages: size cannot be zero")
    ELSE MapLoop_lab(s, pgtbl, PG_ROUND_DOWN(va), PG_ROUND_DOWN(va + len - 1), pa, perm)

vm_mappages(s, pgtbl, va, pa, len, perm) ==
    IF ~Running(s) THEN s
    ELSE CASE s.variant = "week3" -> vm_mappages_week3(s, pgtbl, va, pa, len, perm)
           [] s.variant = "sys" -> vm_mappages_sys(s, pgtbl, va, pa, len, perm)
           [] OTHER -> vm_mappages_lab(s, pgtbl, va, pa, len, perm)


\* ------------------------------------------------------------ vm_unmappages
TRAMPOLINE == VA_MAX - PGSIZE
TRAPFRAME == TRAMPOLINE - PGSIZE

\* week3 recomputes the region boundary from the linker symbol `end`, rounded
\* down where pmem_init rounds it up.
kernel_mem_end_week3(s) == PG_ROUND_DOWN(s.end) + KernPages * PGSIZE

RECURSIVE UnmapLoop_week3(_, _, _, _, _, _)
UnmapLoop_week3(s, pgtbl, va, len, freeit, i) ==
    IF ~Running(s) \/ i >= len THEN s
    ELSE Then(vm_getpte_week3(s, pgtbl, va + i, FALSE), LAMBDA g :
             IF ~PteMapped(g) THEN Fault(g)
             ELSE Then(IF freeit
                       THEN pmem_free(g, PTE_TO_PA(PteLoad(g)),
                                      PTE_TO_PA(PteLoad(g)) < kernel_mem_end_week3(g))
                       ELSE g,
                       LAMBDA f : UnmapLoop_week3(PteStore(f, 0), pgtbl, va, len, freeit, i + PGSIZE)))

vm_unmappages_week3(s, pgtbl, va, len, freeit) ==
    IF va % PGSIZE # 0 \/ len % PGSIZE # 0
    THEN Halt(s, "vm_unmappages: addresses or length not page-aligned")
    ELSE UnmapLoop_week3(s, pgtbl, va, len, freeit, 0)

RECURSIVE UnmapLoop_sys(_, _, _, _, _)
UnmapLoop_sys(s, pgtbl, unmap_addr, unmap_end, freeit) ==
    IF ~Running(s) \/ unmap_addr >= unmap_end THEN s
    ELSE Then(vm_getpte_sys(s, pgtbl, unmap_addr, FALSE), LAMBDA g :
             IF g.pte = NullPte THEN Halt(g, "vm_unmappages: fail to get valid pte")
             ELSE IF ~PteMapped(g) THEN Fault(g)
             ELSE IF ~PteHas(PteLoad(g), PTE_V) THEN Halt(g, "vm_unmappages: virtual address not mapped")
             ELSE IF PTE_CHECK(PteLoad(g))
             THEN Halt(g, "vm_unmappages: pte is not a leaf node (page table entry)")
             ELSE Then(IF freeit THEN pmem_free(g, PTE_TO_PA(PteLoad(g)), FALSE) ELSE g,
                       LAMBDA f : UnmapLoop_sys(PteStore(f, 0), pgtbl, unmap_addr + PGSIZE,
                                                unmap_end, freeit)))

vm_unmappages_sys(s, pgtbl, va, len, freeit) ==
    IF va % PGSIZE # 0 THEN Halt(s, "vm_unmappages: va not page-aligned")
    ELSE IF len <= 0 THEN Halt(s, "vm_unmappages: invalid len (len <= 0)")
    ELSE UnmapLoop_sys(s, pgtbl, va, va + PG_ROUND_UP(len), freeit)

RECURSIVE UnmapLoop_lab(_, _, _, _, _)
UnmapLoop_lab(s, pgtbl, current_va, end_va, freeit) ==
    IF ~Running(s) \/ current_va >= end_va THEN s
    ELSE Then(vm_getpte_lab(s, pgtbl, current_va, FALSE), LAMBDA g :
             IF g.pte = NullPte THEN Halt(g, "vm_unmappages: walk failed")
             ELSE IF ~PteMapped(g) THEN Fault(g)
             ELSE IF ~PteHas(PteLoad(g), PTE_V) THEN Halt(g, "vm_unmappages: page not mapped")
             ELSE IF PTE_FLAGS(PteLoad(g)) = PTE_V THEN Halt(g, "vm_unmappages: not a leaf page")
             ELSE Then(IF freeit THEN pmem_free(g, PTE_TO_PA(PteLoad(g)), FALSE) ELSE g,
                       LAMBDA f : UnmapLoop_lab(PteStore(f, 0), pgtbl, current_va + PGSIZE,
                                                end_va, freeit)))

vm_unmappages_lab(s, pgtbl, va, len, freeit) ==
    LET n == PG_ROUND_UP(len) \div PGSIZE
        npages == IF n = 0 THEN 1 ELSE n
    IN IF va % PGSIZE # 0 THEN Halt(s, "vm_unmappages: address not page aligned")
       ELSE UnmapLoop_lab(s, pgtbl, va, va + npages * PGSIZE, freeit)

vm_unmappages(s, pgtbl, va, len, freeit) ==
    IF ~Running(s) THEN s
    ELSE CASE s.variant = "week3" -> vm_unmappages_week3(s, pgtbl, va, len, freeit)
           [] s.variant = "sys" -> vm_unmappages_sys(s, pgtbl, va, len, freeit)
           [] OTHER -> vm_unmappages_lab(s, pgtbl, va, len, freeit)

\* ---------------------------------------------------------------- translate
vm_walkaddr(s, pgtbl, va) ==
    IF va > VA_MAX_week3 THEN [s EXCEPT !.ret = 0]
    ELSE Then(vm_getpte_week3(s, pgtbl, va, FALSE), LAMBDA g :
             IF g.pte = NullPte THEN [g EXCEPT !.ret = 0]
             ELSE IF ~PteMapped(g) THEN Fault(g)
             ELSE IF ~PteHas(PteLoad(g), PTE_V) THEN [g EXCEPT !.ret = 0]
             ELSE IF PTE_IS_TABLE(PteLoad(g)) THEN [g EXCEPT !.ret = 0]
             ELSE [g EXCEPT !.ret = PTE_TO_PA(PteLoad(g)) + (va % PGSIZE)])

uvm_get_phys_addr(s, pgtbl, va) ==
    IF pgtbl = 0 \/ va >= TRAMPOLINE THEN [s EXCEPT !.ret = 0]
    ELSE Then(vm_getpte_sys(s, pgtbl, va, FALSE), LAMBDA g :
             IF g.pte = NullPte THEN [g EXCEPT !.ret = 0]
             ELSE IF ~PteMapped(g) THEN Fault(g)
             ELSE IF ~PteHas(PteLoad(g), PTE_V) \/ ~PteHas(PteLoad(g), PTE_U) THEN [g EXCEPT !.ret = 0]
             ELSE [g EXCEPT !.ret = PTE_TO_PA(PteLoad(g)) + (va % PGSIZE)])


\* ----------------------------------------------------------- create/destroy
Min(S) == CHOOSE x \in S : \A y \in S : x <= y
\* the first index >= i whose entry in the table contents c has PTE_V set,
\* NPTE when there is none: the loops over the 512 entries skip the others
NextValid(c, i) ==
    LET S == IF Bit(PTE_FLAGS(c.fill), PTE_V)
             THEN {j \in i..(NPTE - 1) : PteHas(RdW(c, j), PTE_V)}
             ELSE {j \in DOMAIN c.ov : j >= i /\ PteHas(c.ov[j], PTE_V)}
    IN IF S = {} THEN NPTE ELSE Min(S)

vm_create(s) ==
    Then(pmem_alloc(s, TRUE), LAMBDA a :
        IF a.ret # 0 THEN [a EXCEPT !.mem[a.ret] = Filled(0)] ELSE a)

\* week3: vm_free enters at level 0 and counts the level up while it descends
RECURSIVE vm_free_pgtbl(_, _, _, _)
vm_free_pgtbl(s, pgtbl, level, from) ==
    IF ~Running(s) \/ pgtbl = 0 THEN s
    ELSE IF pgtbl \notin Frames THEN Fault(s)
    ELSE Bind(IF level < 2 THEN NextValid(s.mem[pgtbl], from) ELSE NPTE, LAMBDA i :
             IF i = NPTE THEN pmem_free(s, pgtbl, TRUE)
             ELSE IF PTE_IS_TABLE(RdW(s.mem[pgtbl], i))
             THEN Then(vm_free_pgtbl(s, PTE_TO_PA(RdW(s.mem[pgtbl], i)), level + 1, 0),
                       LAMBDA c : vm_free_pgtbl(c, pgtbl, level, i + 1))
             ELSE vm_free_pgtbl(s, pgtbl, level, i + 1))

vm_free(s, pgtbl) == IF pgtbl # 0 THEN vm_free_pgtbl(s, pgtbl, 0, 0) ELSE s

\* sys: the root is entered with level 3, a data page would be level 0
RECURSIVE destroy_pgtbl(_, _, _, _)
destroy_pgtbl(s, pgtbl, level, from) ==
    IF ~Running(s) \/ pgtbl = 0 \/ level = 0 THEN s
    ELSE IF pgtbl \notin Frames THEN Fault(s)
    ELSE Bind(NextValid(s.mem[pgtbl], from), LAMBDA i :
             IF i = NPTE THEN s
             ELSE IF PTE_CHECK(RdW(s.mem[pgtbl], i))
             THEN Then(destroy_pgtbl(s, PTE_TO_PA(RdW(s.mem[pgtbl], i)), level - 1, 0), LAMBDA c :
                  Then(pmem_free(c, PTE_TO_PA(RdW(s.mem[pgtbl], i)), TRUE), LAMBDA f :
                       destroy_pgtbl(f, pgtbl, level, i + 1)))
             ELSE Then(IF PteHas(RdW(s.mem[pgtbl], i), PTE_U)
                       THEN pmem_free(s, PTE_TO_PA(RdW(s.mem[pgtbl], i)), FALSE)
                       ELSE s,
                       LAMBDA f : destroy_pgtbl(
                           [f EXCEPT !.mem[pgtbl] = WrW(@, i, PteClear(RdW(@, i), PTE_V))],
                           pgtbl, level, i + 1)))

uvm_destroy_pgtbl_sys(s, pgtbl) ==
    IF pgtbl = 0 THEN s
    ELSE Then(destroy_pgtbl(s, pgtbl, 3, 0), LAMBDA d :
             pmem_free([d EXCEPT !.mem[pgtbl] = Filled(0)], pgtbl, FALSE))

\* lab: the root is level 2, the bottom tables are level 0
RECURSIVE vm_recursive_destroy_pgtbl(_, _, _, _)
vm_recursive_destroy_pgtbl(s, pgtbl, level, from) ==
    IF ~Running(s) THEN s
    ELSE IF pgtbl \notin Frames THEN Fault(s)
    ELSE Bind(NextValid(s.mem[pgtbl], from), LAMBDA i :
             IF i = NPTE THEN pmem_free(s, pgtbl, FALSE)
             ELSE Then(IF level # 0 /\ PTE_CHECK(RdW(s.mem[pgtbl], i))
                       THEN vm_recursive_destroy_pgtbl(s, PTE_TO_PA(RdW(s.mem[pgtbl], i)), level - 1, 0)
                       ELSE pmem_free(s, PTE_TO_PA(RdW(s.mem[pgtbl], i)), FALSE),
                       LAMBDA c : vm_recursive_destroy_pgtbl(c, pgtbl, level, i + 1)))

uvm_destroy_pgtbl_lab(s, pgtbl) ==
    Then(vm_unmappages_lab(s, pgtbl, TRAMPOLINE, PGSIZE, FALSE), LAMBDA a :
    Then(vm_unmappages_lab(a, pgtbl, TRAPFRAME, PGSIZE, TRUE), LAMBDA b :
         vm_recursive_destroy_pgtbl(b, pgtbl, 2, 0)))

\* a root that maps the trap frame alone
proc_pgtbl_init_bare(s, trapframe) ==
    Then(pmem_alloc(s, FALSE), LAMBDA a :
        IF a.ret = 0 THEN a
        ELSE Then(vm_mappages([a EXCEPT !.mem[a.ret] = Filled(0)], a.ret, TRAPFRAME, trapframe,
                              PGSIZE, PTE_R + PTE_W), LAMBDA f : [f EXCEPT !.ret = a.ret]))

\* proc_pgtbl_init: a root with the trampoline and the trap frame mapped.
\* sys returns 0 without a root; lab panics.
proc_pgtbl_init(s, trapframe) ==
    Then(pmem_alloc(s, FALSE), LAMBDA a :
        IF a.ret = 0
        THEN IF a.variant = "lab" THEN Halt(a, "proc_pgtbl_init: failed to allocate page table") ELSE a
        ELSE Then(vm_mappages([a EXCEPT !.mem[a.ret] = Filled(0)], a.ret, TRAMPOLINE, trampoline,
                              PGSIZE, PTE_R + PTE_X), LAMBDA t :
             Then(vm_mappages(t, a.ret, TRAPFRAME, trapframe, PGSIZE, PTE_R + PTE_W), LAMBDA f :
                  [f EXCEPT !.ret = a.ret])))


\* ---------------------------------------------------------------- duplicate
\* a duplicate that takes the new frame and leaves it as pmem_alloc gave it
CopyPage_skipped(s, dst, src) ==
    IF dst \notin Frames \/ src \notin Frames THEN Fault(s) ELSE s

\* memmove(dst, src, PGSIZE) between two frames
CopyPage(s, dst, src) ==
    IF dst \notin Frames \/ src \notin Frames THEN Fault(s)
    ELSE [s EXCEPT !.mem[dst] = s.mem[src]]

RECURSIVE copy_range(_, _, _, _, _)
copy_range(s, old, new, va, end_va) ==
    IF ~Running(s) \/ va >= end_va THEN s
    ELSE Then(vm_getpte_sys(s, old, va, FALSE), LAMBDA g :
             IF g.pte = NullPte THEN Halt(g, "uvm_copy_pgtbl: pte == NULL")
             ELSE IF ~PteMapped(g) THEN Fault(g)
             ELSE IF ~PteHas(PteLoad(g), PTE_V) THEN Halt(g, "uvm_copy_pgtbl: pte not valid")
             ELSE Then(pmem_alloc(g, FALSE), LAMBDA a :
                  IF a.ret = 0 THEN Halt(a, "copy_range: failed to alloc physical page")
                  ELSE Then(CopyPage(a, a.ret, PTE_TO_PA(PteLoad(g))), LAMBDA c :
                       Then(vm_mappages_sys(c, new, va, a.ret, PGSIZE, PTE_FLAGS(PteLoad(g))),
                            LAMBDA m : copy_range(m, old, new, va + PGSIZE, end_va)))))

RECURSIVE CopyRegions_sys(_, _, _, _, _)
CopyRegions_sys(s, old, new, heap_top, mmap) ==
    IF ~Running(s) \/ mmap = <<>> THEN s
    ELSE IF ~(Head(mmap).begin >= heap_top
              /\ Head(mmap).begin + Head(mmap).npages * PGSIZE < TRAPFRAME)
    THEN Halt(s, "uvm_copy_pgtbl: invalid mmap region")
    ELSE Then(copy_range(s, old, new, Head(mmap).begin,
                         Head(mmap).begin + Head(mmap).npages * PGSIZE),
              LAMBDA c : CopyRegions_sys(c, old, new, heap_top, Tail(mmap)))

uvm_copy_pgtbl_sys(s, old, new, heap_top, ustack_pages, mmap) ==
    IF old = 0 \/ new = 0 THEN Halt(s, "uvm_copy_pgtbl: invalid pagetable")
    ELSE IF heap_top % PGSIZE # 0 THEN Halt(s, "uvm_copy_pgtbl: heap_top not aligned")
    ELSE Then(IF PGSIZE < heap_top THEN copy_range(s, old, new, PGSIZE, heap_top) ELSE s, LAMBDA h :
         Then(IF ustack_pages > 0
              THEN copy_range(h, old, new, (TRAPFRAME - PGSIZE) - ustack_pages * PGSIZE,
                              TRAPFRAME - PGSIZE)
              ELSE h,
              LAMBDA k : CopyRegions_sys(k, old, new, heap_top, mmap)))

\* lab: copy the page the entry s.pte maps at va; the new frame is used
\* unchecked by vm_copy_virtual_range, checked by the scan of the mmap window
CopyOne_lab(s, dst_pgtbl, va, checked) ==
    Then(pmem_alloc(s, FALSE), LAMBDA a :
        IF checked /\ a.ret = 0
        THEN Halt(a, "uvm_copy_pgtbl: insufficient physical memory for mmap region copy")
        ELSE Then(CopyPage(a, a.ret, PTE_TO_PA(PteLoad(s))), LAMBDA c :
                 vm_mappages_lab(c, dst_pgtbl, va, a.ret, PGSIZE, PTE_FLAGS(PteLoad(s)))))

RECURSIVE vm_copy_virtual_range(_, _, _, _, _)
vm_copy_virtual_range(s, src_pgtbl, dst_pgtbl, curr_va, end_va) ==
    IF ~Running(s) \/ curr_va >= end_va THEN s
    ELSE Then(vm_getpte_lab(s, src_pgtbl, curr_va, FALSE), LAMBDA g :
             IF g.pte = NullPte THEN Halt(g, "vm_copy_virtual_range: invalid page table entry")
             ELSE IF ~PteMapped(g) THEN Fault(g)
             ELSE IF ~PteHas(PteLoad(g), PTE_V)
             THEN Halt(g, "vm_copy_virtual_range: page table entry not valid")
             ELSE Then(CopyOne_lab(g, dst_pgtbl, curr_va, FALSE), LAMBDA c :
                       vm_copy_virtual_range(c, src_pgtbl, dst_pgtbl, curr_va + PGSIZE, end_va)))

MMAP_VIRTUAL_END == VA_MAX - 34 * PGSIZE
MMAP_VIRTUAL_BEGIN == MMAP_VIRTUAL_END - 8096 * PGSIZE
Span(level) == PGSIZE * Pow(NPTE, level)
\* the first va in [va, end_va) at which vm_getpte(pgtbl, va, false) gives an
\* entry that is valid or lies outside memory; end_va when there is none
RECURSIVE NextMapped(_, _, _, _, _, _)
NextMapped(m, tbl, level, va, end_va, root) ==
    IF va >= end_va THEN end_va
    ELSE IF tbl \notin Frames THEN va
    ELSE LET base == (va \div Span(level + 1)) * Span(level + 1)
             i == NextValid(m[tbl], VA_TO_VPN(va, level))
             at == IF i = VA_TO_VPN(va, level) THEN va ELSE base + i * Span(level)
         IN IF i = NPTE THEN NextMapped(m, root, 2, base + Span(level + 1), end_va, root)
            ELSE IF level = 0 THEN (IF at >= end_va THEN end_va ELSE at)
            ELSE IF at # va THEN NextMapped(m, root, 2, at, end_va, root)
            ELSE NextMapped(m, PTE_TO_PA(RdW(m[tbl], i)), level - 1, va, end_va, root)

RECURSIVE CopyWindow_lab(_, _, _, _)
CopyWindow_lab(s, src_pgtbl, dst_pgtbl, from) ==
    IF ~Running(s) THEN s
    ELSE Bind(NextMapped(s.mem, src_pgtbl, 2, from, MMAP_VIRTUAL_END, src_pgtbl), LAMBDA curr_va :
             IF curr_va >= MMAP_VIRTUAL_END THEN s
             ELSE Then(vm_getpte_lab(s, src_pgtbl, curr_va, FALSE), LAMBDA g :
                  IF ~PteMapped(g) THEN Fault(g)
                  ELSE Then(CopyOne_lab(g, dst_pgtbl, curr_va, TRUE), LAMBDA c :
                            CopyWindow_lab(c, src_pgtbl, dst_pgtbl, curr_va + PGSIZE))))

uvm_copy_pgtbl_lab(s, src_pgtbl, dst_pgtbl, heap_top, ustack_page_count) ==
    Then(vm_copy_virtual_range(s, src_pgtbl, dst_pgtbl, PGSIZE, heap_top), LAMBDA h :
    Then(vm_copy_virtual_range(h, src_pgtbl, dst_pgtbl,
                               TRAPFRAME - ustack_page_count * PGSIZE, TRAPFRAME), LAMBDA k :
         CopyWindow_lab(k, src_pgtbl, dst_pgtbl, MMAP_VIRTUAL_BEGIN)))


\* ----------------------------------------------------------------- kvm_init
KSTACK(cpu) == TRAMPOLINE - (cpu + 1) * 2 * PGSIZE

\* sys: proc_mapstacks maps one kernel stack, its frame taken unchecked
proc_mapstacks(s, kpgtbl) ==
    Then(pmem_alloc(s, TRUE), LAMBDA a :
        vm_mappages(a, kpgtbl, KSTACK(0), a.ret, PGSIZE, PTE_R + PTE_W))

RECURSIVE MapKstacks_lab(_, _, _)
MapKstacks_lab(s, kpgtbl, i) ==
    IF ~Running(s) \/ i >= NCPU THEN s
    ELSE Then(pmem_alloc(s, FALSE), LAMBDA a :
             IF a.ret = 0 THEN Halt(a, "kvm_make: failed to allocate kernel stack")
             ELSE Then(vm_mappages(a, kpgtbl, KSTACK(i), a.ret, PGSIZE, PTE_R + PTE_W),
                       LAMBDA m : MapKstacks_lab(m, kpgtbl, i + 1)))

\* The kernel page table.  Of its mappings the model keeps the trampoline
\* page and the kernel stacks; the identity mappings of the devices and of
\* the kernel image and memory are left out (week3 keeps the bare root).
kvm_init(s) ==
    Then(pmem_alloc(s, s.variant # "lab"), LAMBDA a :
        IF a.ret = 0 THEN Halt(a, "kvm_init: failed to create kernel page table")
        ELSE IF a.variant = "week3" THEN [a EXCEPT !.mem[a.ret] = Filled(0)]
        ELSE Then(vm_mappages([a EXCEPT !.mem[a.ret] = Filled(0)], a.ret, TRAMPOLINE, trampoline,
                              PGSIZE, PTE_R + PTE_X), LAMBDA t :
             Then(IF a.variant = "sys" THEN proc_mapstacks(t, a.ret) ELSE MapKstacks_lab(t, a.ret, 0),
                  LAMBDA k : [k EXCEPT !.ret = a.ret])))

\* ------------------------------------------------------------------- state
NoLock == [locked |-> 0, cpuid |-> 0 - 1]
\* The kernel thread of a process that never ran: its context returns through
\* fork_return; addr, i, havekids are the locals of proc_wait.
NoCtx == [pc |-> "ret", addr |-> 0, i |-> 0, havekids |-> 0, exit_state |-> 0, ret |-> 0]
NoProc == [state |-> "UNUSED", pgtbl |-> 0, tf |-> 0, parent |-> 0, heap_top |-> 0, ustack_pages |-> 0,
           lk |-> NoLock, sleep_space |-> 0, exit_state |-> 0, cpu |-> 0 - 1, ctx |-> NoCtx,
           mmap |-> <<>>]
Slots == 1..NPROC
NoCall == [op |-> "boot", slot |-> 0, slot2 |-> 0, va |-> 0, pa |-> 0, len |-> 0, perm |-> 0,
           freeit |-> FALSE, ret |-> 0, tbls |-> {}, data |-> {}, cnt |-> <<0, 0>>,
           ustack |-> 0, mmap |-> <<>>]
Harts == 0..(NCPU - 1)
\* A spinlock after spinlock_init, a hart outside the allocator, and the
\* locks of the allocator: kmem.lock in week3, one zone_lock per zone in lab.
LockNames == {"k", "u", "kmem"}
Idle == [pc |-> "idle", op |-> "", in_kernel |-> FALSE, node |-> 0]
\* The cpu_t of a hart and the SIE bit of its sstatus, with what its caller
\* knows: the locks it is between acquiring and releasing, its push_off
\* calls that have no pop_off yet, and the SIE bit before the outermost of
\* the push_off calls that are open.
NoCpu == [noff |-> 0, origin |-> 0, sie |-> 0, holds |-> {}, pushes |-> 0, outer |-> 0]
NoCpus == [lock |-> [n \in LockNames |-> NoLock], hart |-> [h \in Harts |-> Idle],
           cpu |-> [h \in Harts |-> NoCpu]]
\* The pool of mmap records before mmap_init: list_mmap_region_node[i] is the
\* number i, NULL is -1.
N_MMAP == 4
NULL == 0 - 1
Nodes == 0..(N_MMAP - 1)
NoPool == [line |-> "", list_head |-> NULL, next |-> [i \in Nodes |-> NULL], handed |-> {}]
\* main() of week3: where each hart stands (a line of main.c, 0 outside the
\* test), the flag `started`, and the locals test_pgtbl and mem[]
NoSatp == [root |-> 0, kvm |-> "none"]
NoBoot == [pc |-> [h \in Harts |-> 0], started |-> FALSE, test_pgtbl |-> 0, mem |-> <<>>,
           kvm |-> "none", satp |-> [h \in Harts |-> NoSatp]]

\* The state pmem_init and kvm_init leave; `end` may or may not be aligned.
Ends(v) == IF v = "week3" THEN {ALLOC_BEGIN - 1, ALLOC_BEGIN} ELSE {ALLOC_BEGIN}
Booted ==
    \E v \in Variants : \E e \in Ends(v) : \E b \in {kvm_init(pmem_init(v, e))} :
    /\ variant = v
    /\ end = e
    /\    /\ mem = b.mem
          /\ zone = b.zone
          /\ panicked = b.panicked
          /\ out = b.out
          /\ twice = b.twice
          /\ kernel_pgtbl = b.ret
    /\ held = {}
    /\ procs = [i \in Slots |-> NoProc]
    /\ maps = {}
    /\ last = NoCall
    /\ cpus = NoCpus
    /\ pool = NoPool

Init == Booted /\ boot = NoBoot /\ nops = MaxOps

\* the machine after a call, written back to the variables
Commit(s) ==
    /\ mem' = s.mem
    /\ zone' = s.zone
    /\ panicked' = s.panicked
    /\ out' = s.out
    /\ twice' = s.twice

CanCall == panicked = "" /\ nops > 0


\* ------------------------------------------------------- reading a table tree
\* What the hardware sees in the tree under a root: an entry with PTE_V and
\* none of R, W, X above level 0 points to the next table, any other valid
\* entry is a leaf.
ValidAt(c) ==
    IF Bit(PTE_FLAGS(c.fill), PTE_V) THEN {j \in 0..(NPTE - 1) : PteHas(RdW(c, j), PTE_V)}
    ELSE {j \in DOMAIN c.ov : PteHas(c.ov[j], PTE_V)}
IsLink(w, level) == level > 0 /\ PTE_CHECK(w)

RECURSIVE TreeTables(_, _, _)
TreeTables(m, tbl, level) ==
    IF tbl \notin Frames THEN {}
    ELSE {tbl} \cup UNION {TreeTables(m, PTE_TO_PA(RdW(m[tbl], j)), level - 1) :
                             j \in {k \in ValidAt(m[tbl]) : IsLink(RdW(m[tbl], k), level)}}

RECURSIVE TreeLeaves(_, _, _, _)
TreeLeaves(m, tbl, level, base) ==
    IF tbl \notin Frames THEN {}
    ELSE UNION {IF IsLink(RdW(m[tbl], j), level)
                THEN TreeLeaves(m, PTE_TO_PA(RdW(m[tbl], j)), level - 1, base + j * Span(level))
                ELSE {[va |-> base + j * Span(level), pte |-> RdW(m[tbl], j)]} :
                j \in ValidAt(m[tbl])}

Tables(root) == TreeTables(mem, root, 2)
Leaves(root) == TreeLeaves(mem, root, 2, 0)
LeafFrames(root) == {PTE_TO_PA(l.pte) : l \in Leaves(root)}
OnFreeList == FreeSet("k") \cup FreeSet("u")

\* -------------------------------------------------- the kernel's own callers
\* Inputs of the calls.
VAs == {PGSIZE, 2 * PGSIZE}
Perms == {PTE_R, PTE_R + PTE_W + PTE_U, PTE_U}
\* what a caller writes into a buffer
Data == {42}
Live == {i \in Slots : procs[i].pgtbl # 0}
MappedFrames == {m.pa : m \in maps}

Call(op) == [NoCall EXCEPT !.op = op]
Same == UNCHANGED <<variant, end, kernel_pgtbl, boot, cpus, pool>>

Alloc(in_kernel) ==
    /\ CanCall
    /\ variant = "lab" => ~in_kernel
    /\ \E a \in {pmem_alloc(Machine, in_kernel)} :
          /\ Commit(a)
          /\ held' = IF Running(a) /\ a.ret # 0 THEN held \cup {a.ret} ELSE held
          /\ last' = [Call("pmem_alloc") EXCEPT !.ret = a.ret, !.freeit = in_kernel]
    /\ nops' = nops - 1
    /\ UNCHANGED <<procs, maps>> /\ Same

\* The caller returns a buffer it owns and has not mapped, to its region.
Free(page) ==
    /\ CanCall
    /\ page \in held \ MappedFrames
    /\ \E f \in {pmem_free(Machine, page, page \in KernFrames)} : Commit(f)
    /\ held' = held \ {page}
    /\ last' = [Call("pmem_free") EXCEPT !.pa = page]
    /\ nops' = nops - 1
    /\ UNCHANGED <<procs, maps>> /\ Same

\* A new address space: vm_create in week3; a trap frame and proc_pgtbl_init
\* (proc_make_first, proc_alloc) in sys and lab.  `ret` is the root, `pte.f`
\* the trap frame.
NewSpace(s) ==
    IF s.variant = "week3" THEN vm_create(s)
    ELSE Then(pmem_alloc(s, FALSE), LAMBDA tf :
             IF tf.ret = 0 THEN tf
             ELSE Then(proc_pgtbl_init(tf, tf.ret), LAMBDA c :
                       [c EXCEPT !.pte = [f |-> tf.ret, i |-> 0]]))

Create(i) ==
    /\ CanCall
    /\ procs[i].pgtbl = 0
    /\ \A j \in Slots : j < i => procs[j].pgtbl # 0
    /\ \E c \in {NewSpace(Machine)} :
          /\ Commit(c)
          /\ procs' = IF Running(c) /\ c.ret # 0
                      THEN [procs EXCEPT ![i] = [NoProc EXCEPT !.state = "USED", !.pgtbl = c.ret,
                                                 !.tf = IF variant = "week3" THEN 0 ELSE c.pte.f]]
                      ELSE procs
          /\ last' = [Call("create") EXCEPT !.slot = i,
                                            !.ret = IF Running(c) THEN c.ret ELSE 0]
    /\ nops' = nops - 1
    /\ UNCHANGED <<held, maps>> /\ Same

\* The caller maps a buffer it owns and has not mapped yet.
Map(i, va, pa, len, perm) ==
    /\ CanCall
    /\ i \in Live
    /\ PG_ROUND_DOWN(pa) \in held \ MappedFrames
    /\ \E m \in {vm_mappages(Machine, procs[i].pgtbl, va, pa, len, perm)} :
          /\ Commit(m)
          /\ maps' = IF Running(m)
                     THEN {x \in maps : ~(x.slot = i /\ x.va = va)}
                          \cup {[slot |-> i, va |-> va, pa |-> pa, perm |-> perm]}
                     ELSE maps
    /\ last' = [Call("vm_mappages") EXCEPT !.slot = i, !.va = va, !.pa = pa, !.len = len, !.perm = perm]
    /\ nops' = nops - 1
    /\ UNCHANGED <<held, procs>> /\ Same

Unmap(i, va, len, freeit) ==
    /\ CanCall
    /\ i \in Live
    /\ \E u \in {vm_unmappages(Machine, procs[i].pgtbl, va, len, freeit)} :
       \E gone \in {{x \in maps : x.slot = i /\ x.va = va}} :
          /\ Commit(u)
          /\ maps' = IF Running(u) THEN maps \ gone ELSE maps
          /\ held' = IF Running(u) /\ freeit THEN held \ {x.pa : x \in gone} ELSE held
          /\ last' = [Call("vm_unmappages") EXCEPT !.slot = i, !.va = va, !.len = len,
                                                   !.freeit = freeit,
                                                   !.data = {x.pa : x \in gone}]
    /\ nops' = nops - 1
    /\ UNCHANGED procs /\ Same

\* The caller writes into the buffer pmem_alloc has just given it (once: the
\* word is not there yet).
Store(page, w) ==
    /\ panicked = ""
    /\ last.op = "pmem_alloc" /\ page = last.ret
    /\ page \in held \ MappedFrames
    /\ RdW(mem[page], 1) # w
    /\ mem' = [mem EXCEPT ![page] = WrW(@, 1, w)]
    /\ last' = [Call("store") EXCEPT !.pa = page]
    /\ UNCHANGED <<zone, panicked, out, twice, held, procs, maps, nops>> /\ Same

DestroySpace(s, pgtbl) ==
    CASE s.variant = "week3" -> vm_free(s, pgtbl)
      [] s.variant = "sys" -> uvm_destroy_pgtbl_sys(s, pgtbl)
      [] OTHER -> uvm_destroy_pgtbl_lab(s, pgtbl)

\* the frames on the two free lists of machine s
FreeIn(s) ==
    Range(ListFrom(s.mem, s.zone.k.head, NFrames + 1))
    \cup Range(ListFrom(s.mem, s.zone.u.head, NFrames + 1))

Destroy(i) ==
    /\ CanCall
    /\ i \in Live
    /\ \E d \in {DestroySpace(Machine, procs[i].pgtbl)} :
          /\ Commit(d)
          /\ held' = held \ FreeIn(d)
          /\ last' = [Call("destroy") EXCEPT !.slot = i, !.ret = procs[i].pgtbl,
                                             !.pa = procs[i].tf,
                                             !.tbls = Tables(procs[i].pgtbl),
                                             !.data = LeafFrames(procs[i].pgtbl) \ {trampoline},
                                             !.cnt = <<zone.k.count, zone.u.count>>]
    /\ procs' = [procs EXCEPT ![i] = NoProc]
    /\ maps' = {x \in maps : x.slot # i}
    /\ nops' = nops - 1
    /\ Same

\* uvm_copy_pgtbl from the table of slot i into the table of slot j, over the
\* heap range [PGSIZE, heap_top), ustack_pages stack pages and the mmap
\* regions: those of the list in sys, those of the mmap window in lab, which
\* does not read the list it is given.
CopySpace(s, old, new, heap_top, ustack_pages, mmap) ==
    IF s.variant = "sys" THEN uvm_copy_pgtbl_sys(s, old, new, heap_top, ustack_pages, mmap)
    ELSE uvm_copy_pgtbl_lab(s, old, new, heap_top, ustack_pages)

\* the addresses uvm_copy_pgtbl of line v goes over
InExtents(v, va, heap_top, ustack_pages, mmap) ==
    \/ va >= PGSIZE /\ va < heap_top
    \/ IF v = "sys"
       THEN va >= (TRAPFRAME - PGSIZE) - ustack_pages * PGSIZE /\ va < TRAPFRAME - PGSIZE
       ELSE va >= TRAPFRAME - ustack_pages * PGSIZE /\ va < TRAPFRAME
    \/ IF v = "sys"
       THEN \E k \in DOMAIN mmap :
               va >= mmap[k].begin /\ va < mmap[k].begin + mmap[k].npages * PGSIZE
       ELSE va >= MMAP_VIRTUAL_BEGIN /\ va < MMAP_VIRTUAL_END

Duplicate(i, j, heap_top, ustack_pages, mmap) ==
    /\ CanCall
    /\ variant # "week3"
    /\ i \in Live /\ j \in Live /\ i # j
    /\ \E d \in {CopySpace(Machine, procs[i].pgtbl, procs[j].pgtbl, heap_top, ustack_pages, mmap)} :
          /\ Commit(d)
          /\ maps' = IF Running(d)
                     THEN {x \in maps : ~(x.slot = j /\ InExtents(variant, x.va, heap_top,
                                                                 ustack_pages, mmap))}
                          \cup {[slot |-> j, va |-> l.va, pa |-> PTE_TO_PA(l.pte),
                                 perm |-> PTE_FLAGS(l.pte) - PTE_V] :
                                l \in {k \in TreeLeaves(d.mem, procs[j].pgtbl, 2, 0) :
                                           InExtents(variant, k.va, heap_top, ustack_pages, mmap)}}
                     ELSE maps
    /\ last' = [Call("duplicate") EXCEPT !.slot = i, !.slot2 = j, !.len = heap_top,
                                         !.ustack = ustack_pages, !.mmap = mmap]
    /\ nops' = nops - 1
    /\ UNCHANGED <<held, procs>> /\ Same

\* The allocator and the mapping engine under the callers of one address space.
Next ==
    \/ \E in_kernel \in BOOLEAN : Alloc(in_kernel)
    \/ \E page \in Frames : Free(page)
    \/ Create(1)
    \/ \E va \in VAs, pa \in Frames, perm \in Perms : Map(1, va, pa, PGSIZE, perm)
    \/ \E va \in VAs, freeit \in BOOLEAN : Unmap(1, va, PGSIZE, freeit)

Spec == Init /\ [][Next]_vars

\* The life of address spaces: created, filled, duplicated, destroyed.
\* The page under the top of the user stack, and the mmap region lists.
StackVa == IF variant = "sys" THEN TRAPFRAME - 2 * PGSIZE ELSE TRAPFRAME - PGSIZE
Regions == {<<>>, <<[begin |-> MMAP_VIRTUAL_BEGIN, npages |-> 1]>>}
InitLife == Booted /\ boot = NoBoot /\ nops = MaxLife

NextLife ==
    \/ Alloc(FALSE)
    \/ \E i \in Slots : Create(i)
    \/ \E page \in Frames, w \in Data : Store(page, w)
    \/ \E i \in Slots, pa \in Frames, perm \in Perms : Map(i, PGSIZE, pa, PGSIZE, perm)
    \/ \E i \in Slots : Destroy(i)
    \/ \E i \in Slots, pa \in Frames, va \in {StackVa, MMAP_VIRTUAL_BEGIN} :
          Map(i, va, pa, PGSIZE, PTE_R + PTE_W + PTE_U)
    \/ \E i \in Slots, j \in Slots, heap_top \in {PGSIZE, 2 * PGSIZE},
          ustack_pages \in {0, 1}, mmap \in Regions :
          Duplicate(i, j, heap_top, ustack_pages, mmap)

SpecLife == InitLife /\ [][NextLife]_vars


\* ------------------------------------------------------------ processes (lab)
\* The process table of the lab line.  A slot keeps its state, root table,
\* trap frame, parent slot, heap_top and ustack_pages.  The registers kept in
\* a trap frame are left out: trapframe_t is declared in no file of the tree.
\* proc_alloc once a free slot is found: `ret` is the root, `pte.f` the trap
\* frame, `ret` 0 when the slot could not be filled.
proc_alloc(s) ==
    Then(pmem_alloc(s, FALSE), LAMBDA tf :
        IF tf.ret = 0 THEN tf
        ELSE Then(proc_pgtbl_init(tf, tf.ret), LAMBDA c :
                 IF c.ret = 0
                 THEN Then(pmem_free(c, tf.ret, FALSE), LAMBDA f : [f EXCEPT !.ret = 0])
                 ELSE [c EXCEPT !.pte = [f |-> tf.ret, i |-> 0]]))

proc_free(s, tf, pgtbl) ==
    Then(IF tf # 0 THEN pmem_free(s, tf, FALSE) ELSE s, LAMBDA a :
         IF pgtbl # 0 THEN uvm_destroy_pgtbl_lab(a, pgtbl) ELSE a)

UserStackPerm == PTE_R + PTE_W + PTE_U
\* the first word of initcode, as proc_make_first copies it into the code page
initcode == 147

proc_make_first(s) ==
    Then(proc_alloc(s), LAMBDA p :
        IF p.ret = 0 THEN Halt(p, "proc_make_first: failed to allocate process")
        ELSE Then(pmem_alloc(p, FALSE), LAMBDA st :
        IF st.ret = 0 THEN Halt(st, "proc_make_first: failed to allocate user stack")
        ELSE Then(vm_mappages(st, p.ret, TRAPFRAME - PGSIZE, st.ret, PGSIZE, UserStackPerm), LAMBDA m :
             Then(pmem_alloc(m, FALSE), LAMBDA code :
             IF code.ret = 0 THEN Halt(code, "proc_make_first: failed to allocate code page")
             ELSE Then(vm_mappages([code EXCEPT !.mem[code.ret] = WrW(Filled(0), 0, initcode)],
                                   p.ret, PGSIZE, code.ret, PGSIZE,
                                   PTE_R + PTE_W + PTE_X + PTE_U),
                       LAMBDA z : [z EXCEPT !.ret = p.ret, !.pte = p.pte])))))

\* proc_fork once proc_alloc has a slot; `ret` 0 stands for the return of -1
proc_fork(s, pgtbl, heap_top, ustack_pages) ==
    Then(proc_alloc(s), LAMBDA np :
        IF np.ret = 0 THEN np
        ELSE Then(pmem_alloc(np, FALSE), LAMBDA st :
        IF st.ret = 0
        THEN Then(proc_free(st, np.pte.f, np.ret), LAMBDA f : [f EXCEPT !.ret = 0])
        ELSE Then(vm_mappages(st, np.ret, TRAPFRAME - PGSIZE, st.ret, PGSIZE, UserStackPerm), LAMBDA m :
             Then(uvm_copy_pgtbl_lab(m, pgtbl, np.ret, heap_top, ustack_pages),
                  LAMBDA c : [c EXCEPT !.ret = np.ret, !.pte = np.pte]))))

Unused == {i \in Slots : procs[i].state = "UNUSED"}
Children(p) == {i \in Slots : procs[i].parent = p}
Zombies(p) == {i \in Children(p) : procs[i].state = "ZOMBIE"}
proczero == 1

ProcMakeFirst ==
    /\ CanCall
    /\ variant = "lab"
    /\ last.op = "boot"
    /\ \E m \in {proc_make_first(Machine)} :
          /\ Commit(m)
          /\ procs' = IF Running(m)
                      THEN [procs EXCEPT ![proczero] =
                               [NoProc EXCEPT !.state = "RUNNABLE", !.pgtbl = m.ret, !.tf = m.pte.f,
                                              !.heap_top = 2 * PGSIZE, !.ustack_pages = 1]]
                      ELSE procs
          /\ last' = [Call("proc_make_first") EXCEPT !.slot = proczero, !.ret = m.ret]
    /\ nops' = nops - 1
    /\ UNCHANGED <<held, maps>> /\ Same

\* proc_fork called by the process in slot p
Fork(p) ==
    /\ CanCall
    /\ procs[p].state = "RUNNABLE"
    /\ IF Unused = {}
       THEN /\ last' = [Call("proc_fork") EXCEPT !.slot = p]
            /\ UNCHANGED <<mem, zone, panicked, out, twice, procs>>
       ELSE \E np \in {Min(Unused)} :
            \E f \in {proc_fork(Machine, procs[p].pgtbl, procs[p].heap_top, procs[p].ustack_pages)} :
               /\ Commit(f)
               /\ procs' = IF Running(f) /\ f.ret # 0
                           THEN [procs EXCEPT ![np] =
                                    [NoProc EXCEPT !.state = "RUNNABLE", !.pgtbl = f.ret,
                                                   !.tf = f.pte.f, !.parent = p,
                                                   !.heap_top = procs[p].heap_top,
                                                   !.ustack_pages = procs[p].ustack_pages]]
                           ELSE procs
               /\ last' = [Call("proc_fork") EXCEPT !.slot = p, !.slot2 = np, !.ret = f.ret]
    /\ nops' = nops - 1
    /\ UNCHANGED <<held, maps>> /\ Same

\* proc_exit called by the process in slot p
Exit(p) ==
    /\ CanCall
    /\ procs[p].state = "RUNNABLE"
    /\ IF p = proczero
       THEN /\ panicked' = "proc_exit: proczero exiting"
            /\ UNCHANGED procs
       ELSE /\ procs' = [i \in Slots |->
                           IF i = p THEN [procs[i] EXCEPT !.state = "ZOMBIE"]
                           ELSE IF procs[i].parent = p THEN [procs[i] EXCEPT !.parent = proczero]
                           ELSE procs[i]]
            /\ UNCHANGED panicked
    /\ last' = [Call("proc_exit") EXCEPT !.slot = p]
    /\ nops' = nops - 1
    /\ UNCHANGED <<mem, zone, out, twice, held, maps>> /\ Same

\* proc_wait called by the process in slot p, when it does not go to sleep:
\* it reaps its first zombie child, or has no child at all
Wait(p) ==
    /\ CanCall
    /\ procs[p].state = "RUNNABLE"
    /\ Zombies(p) # {} \/ Children(p) = {}
    /\ IF Children(p) = {}
       THEN /\ last' = [Call("proc_wait") EXCEPT !.slot = p]
            /\ UNCHANGED <<mem, zone, panicked, out, twice, procs>>
       ELSE \E pp \in {Min(Zombies(p))} :
            \E f \in {proc_free(Machine, procs[pp].tf, procs[pp].pgtbl)} :
               /\ Commit(f)
               /\ procs' = [procs EXCEPT ![pp] = NoProc]
               /\ last' = [Call("proc_wait") EXCEPT !.slot = p, !.slot2 = pp,
                                                    !.pa = procs[pp].tf, !.ret = procs[pp].pgtbl]
    /\ nops' = nops - 1
    /\ UNCHANGED <<held, maps>> /\ Same

\* The life of processes in the lab line.
InitProc == Booted /\ variant = "lab" /\ boot = NoBoot /\ nops = MaxProc

NextProc ==
    \/ Alloc(FALSE)
    \/ ProcMakeFirst
    \/ \E p \in Slots : Fork(p)
    \/ \E p \in Slots : Exit(p)
    \/ \E p \in Slots : Wait(p)

SpecProc == InitProc /\ [][NextProc]_vars

\* ------------------------------------ uvm_copyin, uvm_copyout, uvm_copyin_str
\* An address of the model counts 1024 bytes.  The copy routines move memory
\* in steps of one address; of the 1024 bytes of a step the model keeps the
\* first word, the cell of that address.
Cell(a) == (a % PGSIZE) * (NPTE \div PGSIZE)
RdC(m, a) == RdW(m[PG_ROUND_DOWN(a)], Cell(a))
WrC(s, a, x) ==
    IF PG_ROUND_DOWN(a) \notin Frames THEN Fault(s)
    ELSE [s EXCEPT !.mem[PG_ROUND_DOWN(a)] = WrW(@, Cell(a), x)]

RECURSIVE MoveCells(_, _, _, _, _)
MoveCells(m0, m, dst, src, n) ==
    IF n = 0 THEN m
    ELSE MoveCells(m0, [m EXCEPT ![PG_ROUND_DOWN(dst)] = WrW(@, Cell(dst), RdC(m0, src))],
                   dst + 1, src + 1, n - 1)

memmove(s, dst, src, n) ==
    IF \E j \in 0..(n - 1) : PG_ROUND_DOWN(dst + j) \notin Frames \/ PG_ROUND_DOWN(src + j) \notin Frames
    THEN Fault(s)
    ELSE [s EXCEPT !.mem = MoveCells(s.mem, s.mem, dst, src, n)]

Smaller(a, b) == IF a > b THEN b ELSE a

RECURSIVE uvm_copyin_sys(_, _, _, _, _)
uvm_copyin_sys(s, pgtbl, dst, src, len) ==
    IF ~Running(s) \/ len = 0 \/ pgtbl = 0 \/ dst = 0 \/ src >= TRAMPOLINE THEN s
    ELSE Then(uvm_get_phys_addr(s, pgtbl, src), LAMBDA g :
        IF g.ret = 0 THEN Halt(g, "uvm_copyin: invalid user virtual address")
        ELSE Bind(Smaller(PGSIZE - (src % PGSIZE), len), LAMBDA copy_len :
             uvm_copyin_sys(memmove(g, dst, g.ret + (src % PGSIZE), copy_len),
                            pgtbl, dst + copy_len, src + copy_len, len - copy_len)))

RECURSIVE uvm_copyout_sys(_, _, _, _, _)
uvm_copyout_sys(s, pgtbl, dst, src, len) ==
    IF ~Running(s) \/ len = 0 \/ pgtbl = 0 \/ src = 0 \/ dst >= TRAMPOLINE THEN s
    ELSE Then(uvm_get_phys_addr(s, pgtbl, dst), LAMBDA g :
        IF g.ret = 0 THEN Halt(g, "uvm_copyout: invalid user virtual address")
        ELSE Bind(Smaller(PGSIZE - (dst % PGSIZE), len), LAMBDA copy_len :
             uvm_copyout_sys(memmove(g, g.ret + (dst % PGSIZE), src, copy_len),
                             pgtbl, dst + copy_len, src + copy_len, len - copy_len)))

\* for (i = 0; i < copy_len; i++): `n` is the count strlen(dst_buf) + 1 gives
\* when the zero was found, copy_len otherwise
RECURSIVE StrChars_sys(_, _, _, _, _)
StrChars_sys(s, dst_buf, src_buf, copy_len, i) ==
    IF ~Running(s) \/ i >= copy_len THEN [s |-> s, found |-> FALSE, n |-> copy_len]
    ELSE IF PG_ROUND_DOWN(src_buf + i) \notin Frames
    THEN [s |-> Fault(s), found |-> FALSE, n |-> copy_len]
    ELSE IF RdC(s.mem, src_buf + i) = 0
    THEN [s |-> WrC(s, dst_buf + i, 0), found |-> TRUE, n |-> i + 1]
    ELSE StrChars_sys(WrC(s, dst_buf + i, RdC(s.mem, src_buf + i)), dst_buf, src_buf, copy_len, i + 1)

RECURSIVE StrLoop_sys(_, _, _, _, _)
StrLoop_sys(s, pgtbl, curr_dst, curr_src, remaining) ==
    IF ~Running(s) \/ remaining <= 0 THEN [s |-> s, found |-> FALSE]
    ELSE Bind(uvm_get_phys_addr(s, pgtbl, curr_src), LAMBDA g :
        IF ~Running(g) THEN [s |-> g, found |-> FALSE]
        ELSE IF g.ret = 0
        THEN [s |-> Halt(g, "uvm_copyin_str: invalid user virtual address"), found |-> FALSE]
        ELSE Bind(StrChars_sys(g, curr_dst, g.ret + (curr_src % PGSIZE),
                               Smaller(PGSIZE - (curr_src % PGSIZE), remaining), 0), LAMBDA c :
             IF c.found \/ ~Running(c.s) THEN [s |-> c.s, found |-> c.found]
             ELSE StrLoop_sys(c.s, pgtbl, curr_dst + Smaller(c.n, remaining),
                              curr_src + Smaller(c.n, remaining),
                              remaining - Smaller(c.n, remaining))))

uvm_copyin_str_sys(s, pgtbl, dst, src, maxlen) ==
    IF maxlen = 0 \/ pgtbl = 0 \/ dst = 0 \/ src >= TRAMPOLINE THEN s
    ELSE Bind(StrLoop_sys(s, pgtbl, dst, src, maxlen), LAMBDA r :
             IF Running(r.s) /\ ~r.found THEN WrC(r.s, dst + maxlen - 1, 0) ELSE r.s)

\* lab: the entry of the page of a user address, as each of the three loops
\* looks it up; `ret` is the frame
UserPage_lab(s, pgtbl, curr_va, msg) ==
    Then(vm_getpte_lab(s, pgtbl, curr_va, FALSE), LAMBDA g :
        IF g.pte = NullPte THEN Halt(g, msg)
        ELSE IF ~PteMapped(g) THEN Fault(g)
        ELSE IF ~PteHas(PteLoad(g), PTE_V) THEN Halt(g, msg)
        ELSE [g EXCEPT !.ret = PTE_TO_PA(PteLoad(g))])

RECURSIVE uvm_copyin_lab(_, _, _, _, _)
uvm_copyin_lab(s, pgtbl, kernel_dst, user_src, copy_length) ==
    IF ~Running(s) \/ copy_length <= 0 THEN s
    ELSE Then(UserPage_lab(s, pgtbl, PG_ROUND_DOWN(user_src),
                           "uvm_copyin: invalid or unallocated user page"), LAMBDA g :
         Bind(Smaller(PGSIZE - (user_src - PG_ROUND_DOWN(user_src)), copy_length), LAMBDA copy_bytes :
             uvm_copyin_lab(memmove(g, kernel_dst, g.ret + (user_src - PG_ROUND_DOWN(user_src)),
                                    copy_bytes),
                            pgtbl, kernel_dst + copy_bytes, PG_ROUND_DOWN(user_src) + PGSIZE,
                            copy_length - copy_bytes)))

RECURSIVE uvm_copyout_lab(_, _, _, _, _)
uvm_copyout_lab(s, pgtbl, user_dst, kernel_src, copy_length) ==
    IF ~Running(s) \/ copy_length <= 0 THEN s
    ELSE Then(UserPage_lab(s, pgtbl, PG_ROUND_DOWN(user_dst),
                           "uvm_copyout: invalid or unallocated user page"), LAMBDA g :
         Bind(Smaller(PGSIZE - (user_dst - PG_ROUND_DOWN(user_dst)), copy_length), LAMBDA copy_bytes :
             uvm_copyout_lab(memmove(g, g.ret + (user_dst - PG_ROUND_DOWN(user_dst)), kernel_src,
                                     copy_bytes),
                             pgtbl, PG_ROUND_DOWN(user_dst) + PGSIZE, kernel_src + copy_bytes,
                             copy_length - copy_bytes)))

\* the inner while loop: what it leaves of kernel_dst and max_copy_len
RECURSIVE StrChars_lab(_, _, _, _, _)
StrChars_lab(s, kernel_dst, phy_addr_ptr, copy_bytes, max_copy_len) ==
    IF ~Running(s) \/ copy_bytes <= 0
    THEN [s |-> s, found |-> FALSE, dst |-> kernel_dst, max |-> max_copy_len]
    ELSE IF PG_ROUND_DOWN(phy_addr_ptr) \notin Frames
    THEN [s |-> Fault(s), found |-> FALSE, dst |-> kernel_dst, max |-> max_copy_len]
    ELSE IF RdC(s.mem, phy_addr_ptr) = 0
    THEN [s |-> WrC(s, kernel_dst, 0), found |-> TRUE, dst |-> kernel_dst, max |-> max_copy_len]
    ELSE StrChars_lab(WrC(s, kernel_dst, RdC(s.mem, phy_addr_ptr)), kernel_dst + 1,
                      phy_addr_ptr + 1, copy_bytes - 1, max_copy_len - 1)

RECURSIVE uvm_copyin_str_lab(_, _, _, _, _)
uvm_copyin_str_lab(s, pgtbl, kernel_dst, user_src, max_copy_len) ==
    IF ~Running(s) \/ max_copy_len <= 0 THEN s
    ELSE Then(UserPage_lab(s, pgtbl, PG_ROUND_DOWN(user_src),
                           "uvm_copyin_str: invalid or unallocated user page"), LAMBDA g :
         Bind(StrChars_lab(g, kernel_dst, g.ret + (user_src - PG_ROUND_DOWN(user_src)),
                           Smaller(PGSIZE - (user_src - PG_ROUND_DOWN(user_src)), max_copy_len),
                           max_copy_len), LAMBDA c :
             IF c.found THEN c.s
             ELSE uvm_copyin_str_lab(c.s, pgtbl, c.dst, PG_ROUND_DOWN(user_src) + PGSIZE, c.max)))

uvm_copyin(s, pgtbl, dst, src, len) ==
    IF s.variant = "sys" THEN uvm_copyin_sys(s, pgtbl, dst, src, len)
    ELSE uvm_copyin_lab(s, pgtbl, dst, src, len)
uvm_copyout(s, pgtbl, dst, src, len) ==
    IF s.variant = "sys" THEN uvm_copyout_sys(s, pgtbl, dst, src, len)
    ELSE uvm_copyout_lab(s, pgtbl, dst, src, len)
uvm_copyin_str(s, pgtbl, dst, src, maxlen) ==
    IF s.variant = "sys" THEN uvm_copyin_str_sys(s, pgtbl, dst, src, maxlen)
    ELSE uvm_copyin_str_lab(s, pgtbl, dst, src, maxlen)

\* The kernel copies between a buffer it holds, within the frame of the
\* buffer, and the user addresses of a process; the copies are the last
\* CopyOps calls of a run.
CopyIn(i, dst, src, len) ==
    /\ CanCall
    /\ nops <= CopyOps
    /\ i \in Live
    /\ PG_ROUND_DOWN(dst) \in held \ MappedFrames
    /\ (dst % PGSIZE) + len <= PGSIZE
    /\ \E c \in {uvm_copyin(Machine, procs[i].pgtbl, dst, src, len)} : Commit(c)
    /\ last' = [Call("uvm_copyin") EXCEPT !.slot = i, !.pa = dst, !.va = src, !.len = len]
    /\ nops' = nops - 1
    /\ UNCHANGED <<held, procs, maps>> /\ Same

CopyOut(i, dst, src, len) ==
    /\ CanCall
    /\ nops <= CopyOps
    /\ i \in Live
    /\ PG_ROUND_DOWN(src) \in held \ MappedFrames
    /\ (src % PGSIZE) + len <= PGSIZE
    /\ \E c \in {uvm_copyout(Machine, procs[i].pgtbl, dst, src, len)} : Commit(c)
    /\ last' = [Call("uvm_copyout") EXCEPT !.slot = i, !.pa = src, !.va = dst, !.len = len]
    /\ nops' = nops - 1
    /\ UNCHANGED <<held, procs, maps>> /\ Same

\* arg_str: the string argument of a system call is read into buf
CopyInStr(i, dst, src, maxlen) ==
    /\ CanCall
    /\ nops <= CopyOps
    /\ i \in Live
    /\ PG_ROUND_DOWN(dst) \in held \ MappedFrames
    /\ (dst % PGSIZE) + maxlen <= PGSIZE
    /\ \E c \in {uvm_copyin_str(Machine, procs[i].pgtbl, dst, src, maxlen)} : Commit(c)
    /\ last' = [Call("uvm_copyin_str") EXCEPT !.slot = i, !.pa = dst, !.va = src, !.len = maxlen]
    /\ nops' = nops - 1
    /\ UNCHANGED <<held, procs, maps>> /\ Same

\* The owner of the buffer pmem_alloc has just returned writes it full, with
\* a zero in the cell `zero_at` (none when zero_at = PGSIZE).
RECURSIVE FillCells(_, _, _, _)
FillCells(c, page, zero_at, k) ==
    IF k = PGSIZE THEN c
    ELSE FillCells(WrW(c, Cell(k), IF k = zero_at THEN 0 ELSE page + k + 1), page, zero_at, k + 1)

Fill(page, zero_at) ==
    /\ panicked = ""
    /\ last.op = "pmem_alloc" /\ page = last.ret
    /\ page \in held \ MappedFrames
    /\ mem' = [mem EXCEPT ![page] = FillCells(@, page, zero_at, 0)]
    /\ last' = [Call("fill") EXCEPT !.pa = page]
    /\ UNCHANGED <<zone, panicked, out, twice, held, procs, maps, nops>> /\ Same

UserAddrs == {PGSIZE, PGSIZE + 1, PGSIZE + 3, 2 * PGSIZE + 2}
CopyLens == {1, 4}
InitCopy == Booted /\ variant \in {"sys", "lab"} /\ boot = NoBoot /\ nops = MaxCopy

NextCopy ==
    \/ Create(1)
    \/ Cardinality(held) < MaxBufs /\ Alloc(FALSE)
    \/ \E page \in held : Fill(page, 1)
    \/ \E pa \in held, va \in VAs : Map(1, va, pa, PGSIZE, PTE_R + PTE_W + PTE_U)
    \/ \E b \in held, off \in {0, 1}, src \in UserAddrs, len \in CopyLens :
          CopyIn(1, b + off, src, len)
    \/ \E b \in held, off \in {0, 1}, dst \in UserAddrs, len \in CopyLens :
          CopyOut(1, dst, b + off, len)
    \/ \E b \in held, off \in {0, 1}, src \in UserAddrs, maxlen \in CopyLens :
          CopyInStr(1, b + off, src, maxlen)

SpecCopy == InitCopy /\ [][NextCopy]_vars

\* ------------------------------------------ addresses at and above VA_MAX
\* The first page-aligned address that is not below VA_MAX.
TopVa == IF variant = "week3" THEN VA_MAX_week3 + 1 ELSE VA_MAX
TopVAs == {PGSIZE, TopVa, TopVa + PGSIZE}

\* vm_getpte called on the table of a process; `ret` is the frame of the
\* entry returned, 0 for NULL
GetPte(i, va, alloc) ==
    /\ CanCall
    /\ i \in Live
    /\ \E g \in {vm_getpte(Machine, procs[i].pgtbl, va, alloc)} :
          /\ Commit(g)
          /\ last' = [Call("vm_getpte") EXCEPT !.slot = i, !.va = va, !.freeit = alloc,
                                               !.ret = g.pte.f]
    /\ nops' = nops - 1
    /\ UNCHANGED <<held, procs, maps>> /\ Same

InitTop == Booted /\ boot = NoBoot /\ nops = MaxTop

NextTop ==
    \/ Create(1)
    \/ Alloc(FALSE)
    \/ \E va \in TopVAs, alloc \in BOOLEAN : GetPte(1, va, alloc)
    \/ \E pa \in held, va \in TopVAs : Map(1, va, pa, PGSIZE, PTE_R + PTE_W)
    \/ \E va \in TopVAs : Unmap(1, va, PGSIZE, FALSE)

SpecTop == InitTop /\ [][NextTop]_vars

\* ------------------------------------------- pmem_free of a stray address
\* A caller hands pmem_free an address and a tag of its choice: a buffer it
\* holds, an address inside one, or the first address past the memory.  The
\* memory of the model is made of whole frames, so the week3 line, which goes
\* on to write through a misaligned address, is given aligned ones only.
FreeAs(pa, in_kernel) ==
    /\ CanCall
    /\ variant = "week3" => pa % PGSIZE = 0
    /\ \E f \in {pmem_free(Machine, pa, in_kernel)} : Commit(f)
    /\ held' = held \ {pa}
    /\ last' = [Call("pmem_free") EXCEPT !.pa = pa, !.freeit = in_kernel]
    /\ nops' = nops - 1
    /\ UNCHANGED <<procs, maps>> /\ Same

StrayAddrs == held \cup {h + 1 : h \in held} \cup {zone["u"].end}
InitFree == Booted /\ boot = NoBoot /\ nops = MaxFree

NextFree ==
    \/ \E in_kernel \in BOOLEAN : Alloc(in_kernel)
    \/ \E pa \in StrayAddrs, in_kernel \in BOOLEAN : FreeAs(pa, in_kernel)

SpecFree == InitFree /\ [][NextFree]_vars

\* ------------------------------------------------- sys_brk, sys_mmap (lab)
\* 2^32 bytes in units of 1024 bytes: lengths are handed over as uint32
U32 == 4194304

RECURSIVE GrowLoop_lab(_, _, _, _)
GrowLoop_lab(s, pgtbl, curr_va, new_aligned_heap) ==
    IF ~Running(s) \/ curr_va >= new_aligned_heap THEN s
    ELSE Then(pmem_alloc(s, FALSE), LAMBDA a :
        IF a.ret = 0
        THEN Halt(a, "uvm_heap_grow: insufficient physical memory for heap expansion")
        ELSE Then(vm_mappages_lab(a, pgtbl, curr_va, a.ret, PGSIZE, PTE_R + PTE_W + PTE_U),
                  LAMBDA m : GrowLoop_lab(m, pgtbl, curr_va + PGSIZE, new_aligned_heap)))

\* `ret` is the new heap top
uvm_heap_grow_lab(s, pgtbl, current_heap_top, grow_length) ==
    Then(GrowLoop_lab(s, pgtbl, PG_ROUND_UP(current_heap_top),
                      PG_ROUND_UP(current_heap_top + grow_length)),
         LAMBDA g : [g EXCEPT !.ret = current_heap_top + grow_length])

uvm_heap_ungrow_lab(s, pgtbl, current_heap_top, shrink_length) ==
    Then(IF PG_ROUND_UP(current_heap_top - shrink_length) < PG_ROUND_UP(current_heap_top)
         THEN vm_unmappages_lab(s, pgtbl, PG_ROUND_UP(current_heap_top - shrink_length),
                                PG_ROUND_UP(current_heap_top)
                                - PG_ROUND_UP(current_heap_top - shrink_length), TRUE)
         ELSE s,
         LAMBDA u : [u EXCEPT !.ret = current_heap_top - shrink_length])

\* sys_brk of the process pr; `ret` is what the call returns, 0 - 1 standing
\* for (uint64)-1, and `pte.f` the heap_top the process is left with
sys_brk(s, pr, target_heap_top) ==
    IF target_heap_top = 0 THEN [s EXCEPT !.ret = pr.heap_top, !.pte = [f |-> pr.heap_top, i |-> 0]]
    ELSE IF target_heap_top < 2 * PGSIZE
            \/ target_heap_top > (TRAPFRAME - pr.ustack_pages * PGSIZE) - PGSIZE
    THEN [s EXCEPT !.ret = 0 - 1, !.pte = [f |-> pr.heap_top, i |-> 0]]
    ELSE Then(IF target_heap_top > pr.heap_top
              THEN uvm_heap_grow_lab(s, pr.pgtbl, pr.heap_top,
                                     (target_heap_top - pr.heap_top) % U32)
              ELSE IF target_heap_top < pr.heap_top
              THEN uvm_heap_ungrow_lab(s, pr.pgtbl, pr.heap_top,
                                       (pr.heap_top - target_heap_top) % U32)
              ELSE [s EXCEPT !.ret = pr.heap_top],
              LAMBDA h : [h EXCEPT !.pte = [f |-> h.ret, i |-> 0]])

RECURSIVE MmapLoop_lab(_, _, _, _, _, _)
MmapLoop_lab(s, pgtbl, region_start, page_count, access_perm, i) ==
    IF ~Running(s) \/ i >= page_count THEN s
    ELSE Then(pmem_alloc(s, FALSE), LAMBDA a :
        IF a.ret = 0 THEN Halt(a, "uvm_mmap: insufficient physical memory for mapping")
        ELSE Then(vm_mappages_lab(a, pgtbl, region_start + i * PGSIZE, a.ret, PGSIZE,
                                  BitOr(access_perm, PTE_U)),
                  LAMBDA m : MmapLoop_lab(m, pgtbl, region_start, page_count, access_perm, i + 1)))

\* uvm_mmap of a process whose list of free mmap regions is empty, as
\* proc_make_first leaves it
uvm_mmap_lab(s, pgtbl, region_start, page_count, access_perm) ==
    IF page_count = 0 THEN s
    ELSE IF region_start % PGSIZE # 0
    THEN Halt(s, "uvm_mmap: region start address not page-aligned")
    ELSE MmapLoop_lab(s, pgtbl, region_start, page_count, access_perm, 0)

\* sys_mmap of the process pr, its list of free mmap regions empty
sys_mmap(s, pr, map_start_addr, map_total_length) ==
    IF map_total_length = 0 \/ map_total_length % PGSIZE # 0 THEN [s EXCEPT !.ret = 0 - 1]
    ELSE IF map_start_addr = 0 THEN [s EXCEPT !.ret = 0 - 1]
    ELSE IF map_start_addr % PGSIZE # 0 THEN [s EXCEPT !.ret = 0 - 1]
    ELSE Then(uvm_mmap_lab(s, pr.pgtbl, map_start_addr, map_total_length \div PGSIZE,
                           PTE_R + PTE_W),
              LAMBDA m : [m EXCEPT !.ret = map_start_addr])

SysBrk(p, target_heap_top) ==
    /\ CanCall
    /\ variant = "lab"
    /\ procs[p].state = "RUNNABLE"
    /\ \E b \in {sys_brk(Machine, procs[p], target_heap_top)} :
          /\ Commit(b)
          /\ procs' = IF Running(b) THEN [procs EXCEPT ![p].heap_top = b.pte.f] ELSE procs
          /\ last' = [Call("sys_brk") EXCEPT !.slot = p, !.va = target_heap_top, !.ret = b.ret]
    /\ nops' = nops - 1
    /\ UNCHANGED <<held, maps>> /\ Same

SysMmap(p, start, len) ==
    /\ CanCall
    /\ variant = "lab"
    /\ procs[p].state = "RUNNABLE"
    /\ \E m \in {sys_mmap(Machine, procs[p], start, len)} :
          /\ Commit(m)
          /\ last' = [Call("sys_mmap") EXCEPT !.slot = p, !.va = start, !.len = len, !.ret = m.ret]
    /\ nops' = nops - 1
    /\ UNCHANGED <<held, procs, maps>> /\ Same

\* The first process asks for heap and for mapped regions, and forks.
BrkTargets ==
    {0, PGSIZE, 2 * PGSIZE, 3 * PGSIZE, 2 * PGSIZE + 1, 2 * PGSIZE + (UserPages + 1) * PGSIZE,
     TRAPFRAME - PGSIZE, 3 * PGSIZE + U32}
MmapStarts == {0, 8 * PGSIZE, 8 * PGSIZE + 1, TRAPFRAME, VA_MAX}
MmapLens == {0, PGSIZE, PGSIZE + 1, (UserPages + 1) * PGSIZE}
InitSys == Booted /\ variant = "lab" /\ boot = NoBoot /\ nops = MaxSys

NextSys ==
    \/ ProcMakeFirst
    \/ \E target \in BrkTargets : SysBrk(proczero, target)
    \/ \E start \in MmapStarts, len \in MmapLens : SysMmap(proczero, start, len)
    \/ \E p \in Slots : Fork(p)

SpecSys == InitSys /\ [][NextSys]_vars

\* The first process asks for heap and for mapped regions next to its stack.
GuardVa(pr) == TRAPFRAME - pr.ustack_pages * PGSIZE - PGSIZE
GuardStarts == {TRAPFRAME - 2 * PGSIZE, TRAPFRAME - 3 * PGSIZE, TRAPFRAME - 4 * PGSIZE}
GuardLens == {PGSIZE, 2 * PGSIZE}
GuardTargets == {2 * PGSIZE, 3 * PGSIZE, TRAPFRAME - 2 * PGSIZE + 1}
InitGuard == Booted /\ variant = "lab" /\ boot = NoBoot /\ nops = MaxSys

NextGuard ==
    \/ ProcMakeFirst
    \/ \E target \in GuardTargets : SysBrk(proczero, target)
    \/ \E start \in GuardStarts, len \in GuardLens : SysMmap(proczero, start, len)

SpecGuard == InitGuard /\ [][NextGuard]_vars

\* --------------------------------------------------------- main() of week3
\* Hart 0 has run pmem_init and kvm_init and stands at line 23; the other
\* harts spin at line 46 until `started` is set.
BootMaps ==
    (31 :> [va |-> 0, m |-> 1, perm |-> PTE_R, next |-> 32])
    @@ (32 :> [va |-> PGSIZE * 10, m |-> 2, perm |-> PTE_R + PTE_W, next |-> 33])
    @@ (33 :> [va |-> PGSIZE * 512, m |-> 3, perm |-> PTE_R + PTE_X, next |-> 34])
    @@ (34 :> [va |-> PGSIZE * 512 * 512, m |-> 3, perm |-> PTE_R + PTE_X, next |-> 39])
    @@ (39 :> [va |-> 0, m |-> 1, perm |-> PTE_W, next |-> 40])
BootUnmaps ==
    (40 :> [va |-> PGSIZE * 10, next |-> 41])
    @@ (41 :> [va |-> PGSIZE * 512, next |-> 51])
SameKernel == UNCHANGED <<variant, end, kernel_pgtbl, held, procs, maps, nops, last, cpus, pool>>
Quiet == UNCHANGED <<mem, zone, panicked, out, twice>>

\* line 23
Started ==
    /\ boot.pc[0] = 23
    /\ boot' = [boot EXCEPT !.started = TRUE, !.pc[0] = 25]
    /\ Quiet /\ SameKernel

\* line 25
AllocTestPgtbl ==
    /\ panicked = ""
    /\ boot.pc[0] = 25
    /\ \E a \in {pmem_alloc(Machine, TRUE)} :
          /\ Commit(a)
          /\ boot' = [boot EXCEPT !.test_pgtbl = a.ret, !.pc[0] = 28]
    /\ SameKernel

\* lines 27-28, one turn of the loop
AllocMem ==
    /\ panicked = ""
    /\ boot.pc[0] = 28
    /\ \E a \in {pmem_alloc(Machine, FALSE)} :
          /\ Commit(a)
          /\ boot' = [boot EXCEPT !.mem = Append(@, a.ret),
                                  !.pc[0] = IF Len(boot.mem) + 1 < 5 THEN 28 ELSE 31]
    /\ SameKernel

\* lines 31-34 (test-1) and 39 (test-2)
BootMap ==
    /\ panicked = ""
    /\ boot.pc[0] \in DOMAIN BootMaps
    /\ \E c \in {BootMaps[boot.pc[0]]} :
       \E m \in {vm_mappages(Machine, boot.test_pgtbl, c.va, boot.mem[c.m], PGSIZE, c.perm)} :
          /\ Commit(m)
          /\ boot' = [boot EXCEPT !.pc[0] = c.next]
    /\ SameKernel

\* lines 40-41
BootUnmap ==
    /\ panicked = ""
    /\ boot.pc[0] \in DOMAIN BootUnmaps
    /\ \E c \in {BootUnmaps[boot.pc[0]]} :
       \E u \in {vm_unmappages(Machine, boot.test_pgtbl, c.va, PGSIZE, TRUE)} :
          /\ Commit(u)
          /\ boot' = [boot EXCEPT !.pc[0] = c.next]
    /\ SameKernel

\* line 46 on another hart
HartWait(h) ==
    /\ h # 0
    /\ boot.pc[h] = 46
    /\ boot.started
    /\ boot' = [boot EXCEPT !.pc[h] = 48]
    /\ Quiet /\ SameKernel

\* line 48 on another hart
HartPrint(h) ==
    /\ boot.pc[h] = 48
    /\ boot' = [boot EXCEPT !.pc[h] = 51]
    /\ Quiet /\ SameKernel

InitBoot ==
    /\ Booted
    /\ variant = "week3"
    /\ boot = [NoBoot EXCEPT !.pc = [h \in Harts |-> IF h = 0 THEN 23 ELSE 46]]
    /\ nops = 0

NextBoot ==
    \/ Started
    \/ AllocTestPgtbl
    \/ AllocMem
    \/ BootMap
    \/ BootUnmap
    \/ \E h \in Harts : HartWait(h)
    \/ \E h \in Harts : HartPrint(h)

SpecBoot == InitBoot /\ [][NextBoot]_vars

\* ------------------------------------------------ callers that do not align
\* The mapping engine under calls whose va, pa or len need not be a multiple
\* of the page size.
Offsets == {0, 1}
InitAlign == Booted /\ boot = NoBoot /\ nops = MaxAlign

NextAlign ==
    \/ Alloc(FALSE)
    \/ Create(1)
    \/ \E dv \in Offsets, pa \in Frames, dp \in Offsets, dl \in Offsets :
          Map(1, PGSIZE + dv, pa + dp, PGSIZE + dl, PTE_R + PTE_W + PTE_U)
    \/ \E dv \in Offsets, dl \in Offsets, freeit \in BOOLEAN :
          Unmap(1, PGSIZE + dv, PGSIZE + dl, freeit)

SpecAlign == InitAlign /\ [][NextAlign]_vars

\* ------------------------------------------- the kernel table out of frames
\* The kernel region is drained by pmem_alloc(true) while the device pages
\* are mapped into the kernel's own table, as kvm_init maps them.
Devices == {UART_BASE, CLINT_BASE, PLIC_BASE}

\* one device page, not mapped yet, is mapped onto itself
KvmMap(va) ==
    /\ CanCall
    /\ \A x \in maps : x.va # va
    /\ \E m \in {vm_mappages(Machine, kernel_pgtbl, va, va, PGSIZE, PTE_R + PTE_W)} :
          /\ Commit(m)
          /\ maps' = IF Running(m)
                     THEN maps \cup {[slot |-> 0, va |-> va, pa |-> va, perm |-> PTE_R + PTE_W]}
                     ELSE maps
    /\ last' = [Call("kvm_map") EXCEPT !.va = va, !.pa = va, !.len = PGSIZE, !.perm = PTE_R + PTE_W]
    /\ nops' = nops - 1
    /\ UNCHANGED <<held, procs>> /\ Same

InitOOM == Booted /\ variant # "lab" /\ boot = NoBoot /\ nops = KernPages + 1

NextOOM ==
    \/ Alloc(TRUE)
    \/ \E va \in Devices : KvmMap(va)

SpecOOM == InitOOM /\ [][NextOOM]_vars

\* ------------------------------------------ the user region out of frames
\* A caller takes user frames one after the other, now and then giving the
\* one it has just taken back, until the user list is empty and beyond.
InitDrain == Booted /\ boot = NoBoot /\ nops = UserPages + 2

NextDrain ==
    \/ Alloc(FALSE)
    \/ \E page \in {last.ret} : Free(page)

SpecDrain == InitDrain /\ [][NextDrain]_vars

\* ------------------------------------------- the allocator on several harts
\* pmem_alloc and pmem_free of week3 and lab, one step per access to shared
\* memory, run by every hart at once.  A hart spinning in spinlock_acquire
\* is a hart whose Acquire step is not enabled.
MaxSmp == 3
\* Harts that call the allocator at the same time.
MaxHarts == 2
SmpHarts == 0..(MaxHarts - 1)
LockOf(v, in_kernel) == IF v = "week3" THEN "kmem" ELSE ZoneOf(in_kernel)
spinlock_holding(c, lk, h) == c.lock[lk].locked # 0 /\ c.lock[lk].cpuid = h
\* __sync_lock_test_and_set(&lk->locked, 1) != 0, with every hart passing
TestAndSet_open(c, lk) == FALSE
\* __sync_lock_test_and_set(&lk->locked, 1) != 0
TestAndSet(c, lk) == c.lock[lk].locked # 0
\* push_off
push_off(c) ==
    [c EXCEPT !.sie = 0, !.origin = IF c.noff = 0 THEN c.sie ELSE @, !.noff = @ + 1]
\* pop_off turning the interrupts on again at every level
pop_off_eager(c) ==
    IF c.sie # 0 THEN [cpu |-> c, panic |-> "pop_off - interruptible"]
    ELSE IF c.noff < 1 THEN [cpu |-> c, panic |-> "pop_off"]
    ELSE [cpu |-> [c EXCEPT !.noff = @ - 1, !.sie = IF c.origin # 0 THEN 1 ELSE @],
          panic |-> ""]
\* pop_off
pop_off(c) ==
    IF c.sie # 0 THEN [cpu |-> c, panic |-> "pop_off - interruptible"]
    ELSE IF c.noff < 1 THEN [cpu |-> c, panic |-> "pop_off"]
    ELSE [cpu |-> [c EXCEPT !.noff = @ - 1,
                            !.sie = IF c.noff - 1 = 0 /\ c.origin # 0 THEN 1 ELSE @],
          panic |-> ""]
\* The caller about to enter push_off notes the SIE bit when it has no
\* push_off open.
Noted(c) == [c EXCEPT !.outer = IF c.pushes + Cardinality(c.holds) = 0 THEN c.sie ELSE @]
HartLock(h) == LockOf(variant, cpus.hart[h].in_kernel)
HartZone(h) == ZoneOf(cpus.hart[h].in_kernel)
At(h, pc) == panicked = "" /\ cpus.hart[h].pc = pc
Goto(h, pc) == cpus' = [cpus EXCEPT !.hart[h].pc = pc]
SmpSame == UNCHANGED <<variant, end, kernel_pgtbl, boot, procs, maps, pool>>

AllocCall(h, in_kernel) ==
    /\ CanCall
    /\ At(h, "idle")
    /\ cpus' = [cpus EXCEPT !.hart[h] = [pc |-> "acquire", op |-> "pmem_alloc",
                                         in_kernel |-> in_kernel, node |-> 0]]
    /\ nops' = nops - 1
    /\ UNCHANGED <<mem, zone, panicked, out, twice, held, last>> /\ SmpSame

\* The caller gives up a buffer it owns.  lab checks the address first.
FreeCall(h, page) ==
    /\ CanCall
    /\ At(h, "idle")
    /\ page \in held \ MappedFrames
    /\ \E in_kernel \in {page \in KernFrames} : \E z \in {ZoneOf(in_kernel)} :
          /\ panicked' =
                IF variant = "week3" THEN ""
                ELSE IF page % PGSIZE # 0
                THEN "pmem_free: invalid page address, not aligned to 4KB boundary"
                ELSE IF page < zone[z].begin \/ page >= zone[z].end
                THEN "pmem_free: invalid page address, out of target zone bounds"
                ELSE ""
          /\ cpus' = [cpus EXCEPT !.hart[h] = [pc |-> "fill", op |-> "pmem_free",
                                               in_kernel |-> in_kernel, node |-> page]]
    /\ held' = held \ {page}
    /\ out' = out \ {page}
    /\ nops' = nops - 1
    /\ UNCHANGED <<mem, zone, twice, last>> /\ SmpSame

\* memset(page, 1, PGSIZE) in lab, memset(pa, 0xaa, PGSIZE) in week3
FreeFill(h) ==
    /\ At(h, "fill")
    /\ mem' = [mem EXCEPT ![cpus.hart[h].node] =
                  Filled(IF variant = "week3" THEN PoisonAA ELSE Poison01)]
    /\ Goto(h, "acquire")
    /\ UNCHANGED <<zone, panicked, out, twice, held, last, nops>> /\ SmpSame

\* spinlock_acquire up to the end of the test-and-set loop.  push_off
\* touches nothing but the hart's own cpu_t and sstatus, so it is taken in
\* the step of the test-and-set that ends the loop.
Acquire(h) ==
    /\ At(h, "acquire")
    /\ IF spinlock_holding(cpus, HartLock(h), h)
       THEN /\ panicked' = "spinlock_acquire"
            /\ cpus' = [cpus EXCEPT !.cpu[h] = push_off(Noted(@))]
       ELSE /\ ~TestAndSet(cpus, HartLock(h))
            /\ cpus' = [cpus EXCEPT !.lock[HartLock(h)].locked = 1, !.hart[h].pc = "cpuid",
                                    !.cpu[h] = push_off(Noted(@))]
            /\ UNCHANGED panicked
    /\ UNCHANGED <<mem, zone, out, twice, held, last, nops>> /\ SmpSame

\* lk->cpuid = mycpuid()
SetCpuid(h) ==
    /\ At(h, "cpuid")
    /\ cpus' = [cpus EXCEPT !.lock[HartLock(h)].cpuid = h,
                            !.cpu[h].holds = @ \cup {HartLock(h)},
                            !.hart[h].pc = IF cpus.hart[h].op = "pmem_alloc" THEN "read"
                                           ELSE IF cpus.hart[h].op = "pmem_free" THEN "link"
                                           ELSE "ret"]
    /\ UNCHANGED <<mem, zone, panicked, out, twice, held, last, nops>> /\ SmpSame

\* alloc_page_node = target_zone->free_list.next_page
AllocRead(h) ==
    /\ At(h, "read")
    /\ cpus' = [cpus EXCEPT !.hart[h].node = zone[HartZone(h)].head,
                            !.hart[h].pc = IF zone[HartZone(h)].head = 0 THEN "release" ELSE "unlink"]
    /\ UNCHANGED <<mem, zone, panicked, out, twice, held, last, nops>> /\ SmpSame

\* target_zone->free_list.next_page = alloc_page_node->next_page
AllocUnlink(h) ==
    /\ At(h, "unlink")
    /\ IF cpus.hart[h].node \notin Frames
       THEN panicked' = "fault" /\ UNCHANGED <<zone, cpus>>
       ELSE /\ zone' = [zone EXCEPT ![HartZone(h)].head = AsPtr(RdW(mem[cpus.hart[h].node], 0))]
            /\ Goto(h, "count")
            /\ UNCHANGED panicked
    /\ UNCHANGED <<mem, out, twice, held, last, nops>> /\ SmpSame

\* free_page_node->next_page = target_zone->free_list.next_page
FreeLink(h) ==
    /\ At(h, "link")
    /\ mem' = [mem EXCEPT ![cpus.hart[h].node] = WrW(@, 0, Ptr(zone[HartZone(h)].head))]
    /\ Goto(h, "sethead")
    /\ UNCHANGED <<zone, panicked, out, twice, held, last, nops>> /\ SmpSame

\* target_zone->free_list.next_page = free_page_node
FreeSetHead(h) ==
    /\ At(h, "sethead")
    /\ zone' = [zone EXCEPT ![HartZone(h)].head = cpus.hart[h].node]
    /\ Goto(h, "count")
    /\ UNCHANGED <<mem, panicked, out, twice, held, last, nops>> /\ SmpSame

\* free_page_count-- / ++ in lab; pages_used++ / -- in week3
CountStep(v, op) ==
    IF (v = "week3") = (op = "pmem_alloc") THEN 1 ELSE 0 - 1
Count(h) ==
    /\ At(h, "count")
    /\ zone' = [zone EXCEPT ![HartZone(h)].count = @ + CountStep(variant, cpus.hart[h].op)]
    /\ Goto(h, "release")
    /\ UNCHANGED <<mem, panicked, out, twice, held, last, nops>> /\ SmpSame

\* spinlock_release; lab clears the frame it took after the release
Release(h) ==
    /\ At(h, "release")
    /\ IF ~spinlock_holding(cpus, HartLock(h), h)
       THEN panicked' = "spinlock_release" /\ UNCHANGED cpus
       ELSE \E r \in {pop_off(cpus.cpu[h])} :
            /\ cpus' = [cpus EXCEPT !.lock[HartLock(h)] = NoLock,
                                    !.cpu[h] = [r.cpu EXCEPT !.holds = @ \ {HartLock(h)}],
                                    !.hart[h].pc = IF /\ variant = "lab"
                                                      /\ cpus.hart[h].op = "pmem_alloc"
                                                      /\ cpus.hart[h].node # 0
                                                   THEN "zero" ELSE "ret"]
            /\ panicked' = r.panic
    /\ UNCHANGED <<mem, zone, out, twice, held, last, nops>> /\ SmpSame

\* memset(alloc_page_node, 0, PGSIZE)
AllocZero(h) ==
    /\ At(h, "zero")
    /\ mem' = [mem EXCEPT ![cpus.hart[h].node] = Filled(0)]
    /\ Goto(h, "ret")
    /\ UNCHANGED <<zone, panicked, out, twice, held, last, nops>> /\ SmpSame

\* the call returns; the caller of pmem_alloc owns the frame it got
Return(h) ==
    /\ At(h, "ret")
    /\ \E c \in {cpus.hart[h]} :
          /\ last' = [Call(c.op) EXCEPT !.slot = h, !.freeit = c.in_kernel,
                                        !.ret = IF c.op = "pmem_alloc" THEN c.node ELSE 0,
                                        !.pa = IF c.op = "pmem_free" THEN c.node ELSE 0]
          /\ held' = IF c.op = "pmem_alloc" /\ c.node # 0 THEN held \cup {c.node} ELSE held
          /\ out' = IF c.op = "pmem_alloc" /\ c.node # 0 THEN out \cup {c.node} ELSE out
          /\ twice' = IF c.op = "pmem_alloc" /\ c.node \in out THEN twice \cup {c.node} ELSE twice
    /\ cpus' = [cpus EXCEPT !.hart[h] = Idle]
    /\ UNCHANGED <<mem, zone, panicked, nops>> /\ SmpSame

InitSmp == Booted /\ variant \in {"week3", "lab"} /\ end = ALLOC_BEGIN /\ boot = NoBoot /\ nops = MaxSmp

NextSmp ==
    \/ \E h \in SmpHarts : \E in_kernel \in BOOLEAN : AllocCall(h, in_kernel)
    \/ \E h \in SmpHarts : \E page \in held : FreeCall(h, page)
    \/ \E h \in SmpHarts : FreeFill(h)
    \/ \E h \in SmpHarts : Acquire(h)
    \/ \E h \in SmpHarts : SetCpuid(h)
    \/ \E h \in SmpHarts : AllocRead(h)
    \/ \E h \in SmpHarts : AllocUnlink(h)
    \/ \E h \in SmpHarts : FreeLink(h)
    \/ \E h \in SmpHarts : FreeSetHead(h)
    \/ \E h \in SmpHarts : Count(h)
    \/ \E h \in SmpHarts : Release(h)
    \/ \E h \in SmpHarts : AllocZero(h)
    \/ \E h \in SmpHarts : Return(h)

SpecSmp == InitSmp /\ [][NextSmp]_vars

\* ------------------------------------------ main() of user4, sys and lab
\* The harts run main() side by side.  "user4" is the line of
\* src/用户系统调用（第四次）: its main.c, kvm.c and proc.c are in the tree,
\* its allocator, its walker and its memlayout.h are not, and stand here as
\* those of lab with USER_CODE and USER_STACK as the layout comment of
\* proc.c gives them.  boot.pc holds the line of main.c a hart stands at,
\* boot.kvm how far kvm_init has come, boot.satp what each hart loaded.
USER_CODE == PGSIZE
USER_STACK == TRAPFRAME
\* the address of the array initcode in the kernel image
initcode_pa == KERNEL_BASE + 9 * PGSIZE
MainLines == {"user4", "sys", "lab"}

\* proc_pgtbl_init of user4: root, trampoline, trap frame, stack and code
proc_pgtbl_init_user4(s, trapframe) ==
    Then(pmem_alloc(s, TRUE), LAMBDA a :
        IF a.ret = 0 THEN Halt(a, "proc_pgtbl_init: pgtbl_create failed")
        ELSE Then(vm_mappages([a EXCEPT !.mem[a.ret] = Filled(0)], a.ret, TRAMPOLINE, trampoline,
                              PGSIZE, PTE_R + PTE_X + PTE_U), LAMBDA t :
             Then(pmem_alloc(t, FALSE), LAMBDA tf :
             Then(vm_mappages(tf, a.ret, tf.ret, tf.ret, PGSIZE, PTE_R + PTE_W + PTE_U), LAMBDA f :
             Then(pmem_alloc(f, FALSE), LAMBDA st :
             Then(vm_mappages(st, a.ret, USER_STACK - PGSIZE, st.ret, PGSIZE, UserStackPerm), LAMBDA m :
             Then(pmem_alloc(m, FALSE), LAMBDA code :
             IF code.ret \notin Frames THEN Fault(code)
             ELSE Then(vm_mappages([code EXCEPT !.mem[code.ret] = WrW(@, 0, initcode)],
                                   a.ret, USER_CODE, code.ret, PGSIZE,
                                   PTE_R + PTE_W + PTE_X + PTE_U),
                       LAMBDA z : [z EXCEPT !.ret = a.ret, !.pte = [f |-> tf.ret, i |-> 0]]))))))))

\* proc_make_first of sys: the stack below KSTACK(0), the code page at 0
proc_make_first_sys(s) ==
    Then(pmem_alloc(s, FALSE), LAMBDA tf :
    Then(proc_pgtbl_init(tf, tf.ret), LAMBDA p :
    Then(pmem_alloc(p, FALSE), LAMBDA st :
    Then(vm_mappages(st, p.ret, KSTACK(0) - PGSIZE, st.ret, PGSIZE, UserStackPerm), LAMBDA m :
    Then(pmem_alloc(m, FALSE), LAMBDA code :
    Then(vm_mappages([code EXCEPT !.mem[code.ret] = Filled(0)], p.ret, 0, code.ret, PGSIZE,
                     PTE_W + PTE_R + PTE_X + PTE_U), LAMBDA z :
         [z EXCEPT !.mem[code.ret] = WrW(@, 0, initcode),
                   !.ret = p.ret, !.pte = [f |-> tf.ret, i |-> 0]]))))))

\* the process record proc_make_first fills in
FirstProc(v, m) ==
    [NoProc EXCEPT !.state = "RUNNABLE", !.pgtbl = m.ret, !.tf = m.pte.f,
                   !.heap_top = IF v = "lab" THEN 2 * PGSIZE
                                ELSE IF v = "sys" THEN initcode_pa + PGSIZE
                                ELSE PGSIZE + PGSIZE,
                   !.ustack_pages = 1]

Pc(h) == boot.pc[h]
MainSame == UNCHANGED <<variant, end, held, maps, nops, last, cpus, pool>>

\* kvm_init of sys and lab, run by hart 0
MainKvmInit ==
    /\ panicked = ""
    /\ \/ variant = "sys" /\ Pc(0) = 18 /\ boot' = [boot EXCEPT !.pc[0] = 19, !.kvm = "done"]
       \/ variant = "lab" /\ Pc(0) = 22 /\ boot' = [boot EXCEPT !.pc[0] = 25, !.kvm = "done"]
    /\ \E k \in {kvm_init(Machine)} : Commit(k) /\ kernel_pgtbl' = k.ret
    /\ UNCHANGED procs /\ MainSame

\* kvm_init of user4, line 91: kernel_pgtbl = pgtbl_create()
MainPgtblCreate ==
    /\ panicked = ""
    /\ variant = "user4" /\ Pc(0) = 18
    /\ \E a \in {pmem_alloc(Machine, TRUE)} :
          /\ Commit(IF a.ret = 0 THEN Halt(a, "kvm_init: failed to create kernel page table")
                    ELSE [a EXCEPT !.mem[a.ret] = Filled(0)])
          /\ kernel_pgtbl' = a.ret
    /\ boot' = [boot EXCEPT !.pc[0] = 97, !.kvm = "root"]
    /\ UNCHANGED procs /\ MainSame

\* kvm_init of user4, line 97: kvm_map_kernel, of which the trampoline and
\* the kernel stack of proczero are kept
MainMapKernel ==
    /\ panicked = ""
    /\ variant = "user4" /\ Pc(0) = 97
    /\ \E k \in {Then(vm_mappages(Machine, kernel_pgtbl, TRAMPOLINE, trampoline, PGSIZE,
                                  PTE_R + PTE_X + PTE_G), LAMBDA t :
                 Then(pmem_alloc(t, TRUE), LAMBDA a :
                      vm_mappages(a, kernel_pgtbl, KSTACK(0), a.ret, PGSIZE,
                                  PTE_R + PTE_W + PTE_G)))} : Commit(k)
    /\ boot' = [boot EXCEPT !.pc[0] = 99, !.kvm = "kernel"]
    /\ UNCHANGED <<procs, kernel_pgtbl>> /\ MainSame

\* kvm_init of user4, line 99: kvm_map_devices
MainMapDevices ==
    /\ panicked = ""
    /\ variant = "user4" /\ Pc(0) = 99
    /\ \E k \in {vm_mappages(Machine, kernel_pgtbl, UART_BASE, UART_BASE, PGSIZE, PTE_R + PTE_W)} :
          Commit(k)
    /\ boot' = [boot EXCEPT !.pc[0] = 23, !.kvm = "done"]
    /\ UNCHANGED <<procs, kernel_pgtbl>> /\ MainSame

\* user4, line 18 on another hart: cpuid # 0
MainSkip(h) ==
    /\ panicked = ""
    /\ variant = "user4" /\ h # 0 /\ Pc(h) = 18
    /\ boot' = [boot EXCEPT !.pc[h] = 23]
    /\ UNCHANGED <<procs, kernel_pgtbl>> /\ Quiet /\ MainSame

\* where kvm_inithart is called, and the line that follows
InithartAt(v, h) ==
    IF v = "user4" THEN <<23, 29>>
    ELSE IF v = "sys" THEN (IF h = 0 THEN <<19, 25>> ELSE <<36, 42>>)
    ELSE (IF h = 0 THEN <<25, 38>> ELSE <<56, 64>>)
\* kvm_inithart: w_satp(MAKE_SATP(kernel_pgtbl)); user4 checks for a root
MainInithart(h) ==
    /\ panicked = ""
    /\ Pc(h) = InithartAt(variant, h)[1]
    /\ IF variant = "user4" /\ kernel_pgtbl = 0
       THEN panicked' = "kvm_inithart: kernel page table not initialized" /\ UNCHANGED boot
       ELSE /\ boot' = [boot EXCEPT !.pc[h] = InithartAt(variant, h)[2],
                                    !.satp[h] = [root |-> kernel_pgtbl, kvm |-> boot.kvm]]
            /\ UNCHANGED panicked
    /\ UNCHANGED <<procs, kernel_pgtbl, mem, zone, out, twice>> /\ MainSame

\* proc_make_first on hart 0; in sys and user4 it ends in swtch into proczero
MainFirst ==
    /\ panicked = ""
    /\ \/ variant = "user4" /\ Pc(0) = 29 /\ boot' = [boot EXCEPT !.pc[0] = 79]
       \/ variant = "sys" /\ Pc(0) = 25 /\ boot' = [boot EXCEPT !.pc[0] = 107]
       \/ variant = "lab" /\ Pc(0) = 42 /\ boot' = [boot EXCEPT !.pc[0] = 47]
    /\ \E m \in {IF variant = "lab" THEN proc_make_first(Machine)
                 ELSE IF variant = "sys" THEN proc_make_first_sys(Machine)
                 ELSE proc_pgtbl_init_user4(Machine, TRAPFRAME)} :
          /\ Commit(m)
          /\ procs' = IF Running(m) THEN [procs EXCEPT ![proczero] = FirstProc(variant, m)]
                      ELSE procs
    /\ UNCHANGED kernel_pgtbl /\ MainSame

\* the process gives the hart back: swtch returns into proc_make_first (sys)
MainSwtchBack ==
    /\ panicked = ""
    /\ variant = "sys" /\ Pc(0) = 107
    /\ boot' = [boot EXCEPT !.pc[0] = 29]
    /\ UNCHANGED <<procs, kernel_pgtbl>> /\ Quiet /\ MainSame

\* started = 1
MainStarted ==
    /\ panicked = ""
    /\ \/ variant = "sys" /\ Pc(0) = 29 /\ boot' = [boot EXCEPT !.pc[0] = 42, !.started = TRUE]
       \/ variant = "lab" /\ Pc(0) = 38 /\ boot' = [boot EXCEPT !.pc[0] = 42, !.started = TRUE]
    /\ UNCHANGED <<procs, kernel_pgtbl>> /\ Quiet /\ MainSame

\* while(started == 0) on another hart; in user4 the else branch of line 29
MainWait(h) ==
    /\ panicked = ""
    /\ h # 0
    /\ \/ variant = "sys" /\ Pc(h) = 33 /\ boot.started /\ boot' = [boot EXCEPT !.pc[h] = 36]
       \/ variant = "lab" /\ Pc(h) = 53 /\ boot.started /\ boot' = [boot EXCEPT !.pc[h] = 56]
       \/ variant = "user4" /\ Pc(h) = 29 /\ boot' = [boot EXCEPT !.pc[h] = 34]
    /\ UNCHANGED <<procs, kernel_pgtbl>> /\ Quiet /\ MainSame

\* the loop or the scheduler a hart ends in
Steady(h) ==
    Pc(h) \in (IF variant = "user4" THEN {34, 79}
               ELSE IF variant = "sys" THEN {42, 107}
               ELSE {47, 64})

InitMain ==
    \E v \in MainLines : \E b \in {pmem_init(v, ALLOC_BEGIN)} :
    /\ variant = v
    /\ end = ALLOC_BEGIN
    /\ mem = b.mem /\ zone = b.zone /\ panicked = "" /\ out = {} /\ twice = {}
    /\ kernel_pgtbl = 0
    /\ held = {}
    /\ procs = [i \in Slots |-> NoProc]
    /\ maps = {}
    /\ last = NoCall
    /\ cpus = NoCpus
    /\ pool = NoPool
    /\ nops = 0
    /\ boot = [NoBoot EXCEPT !.pc = [h \in Harts |->
                  IF v = "user4" THEN 18
                  ELSE IF v = "sys" THEN (IF h = 0 THEN 18 ELSE 33)
                  ELSE (IF h = 0 THEN 22 ELSE 53)]]

NextMain ==
    \/ MainKvmInit
    \/ MainPgtblCreate
    \/ MainMapKernel
    \/ MainMapDevices
    \/ \E h \in Harts : MainSkip(h)
    \/ \E h \in Harts : MainInithart(h)
    \/ MainFirst
    \/ MainSwtchBack
    \/ MainStarted
    \/ \E h \in Harts : MainWait(h)

SpecMain == InitMain /\ [][NextMain]_vars

\* ------------------------------------- kvm_init with all of its mappings
\* kvm_init of week3 and of sys with the mappings of the devices, of the
\* kernel image and of the memory behind it.  A device range keeps DevPages
\* pages; the memory ends at ALLOC_END (PHYS_TOP, PHYSTOP).
DevPages == 2
MaxKvm == 4
\* etext, the end of the kernel text
etext == KERNEL_BASE + 8 * PGSIZE
\* KERN_VA_OFFSET = KERNEL_BASE - PHYS_BASE of week3 (0xFFFF800000000000 -
\* 0x80000000), in the bits 0..38 of an address, the ones the walker reads
KERN_VA_OFFSET == 0 - KERNEL_BASE

\* One call of vm_mappages over a long range, taken in runs of RunPages
\* pages: the loop of vm_mappages goes page by page, so the runs leave the
\* table the one call leaves.
RunPages == 12
RECURSIVE MapRange(_, _, _, _, _, _)
MapRange(s, pgtbl, va, pa, len, perm) ==
    IF len <= RunPages * PGSIZE \/ len % PGSIZE # 0 THEN vm_mappages(s, pgtbl, va, pa, len, perm)
    ELSE Then(vm_mappages(s, pgtbl, va, pa, RunPages * PGSIZE, perm), LAMBDA a :
             MapRange(a, pgtbl, va + RunPages * PGSIZE, pa + RunPages * PGSIZE,
                      len - RunPages * PGSIZE, perm))

kvm_map_kernel_week3(s, pgtbl) ==
    Then(vm_mappages(s, pgtbl, KERNEL_BASE + KERN_VA_OFFSET, KERNEL_BASE, etext - KERNEL_BASE,
                     PTE_R + PTE_X + PTE_G), LAMBDA t :
    Then(vm_mappages(t, pgtbl, etext + KERN_VA_OFFSET, etext, s.end - etext,
                     PTE_R + PTE_W + PTE_G), LAMBDA d :
         MapRange(d, pgtbl, s.end + KERN_VA_OFFSET, s.end, ALLOC_END - s.end,
                     PTE_R + PTE_W + PTE_G)))

\* a device range mapped with execute permission as well
kvm_map_devices_week3_x(s, pgtbl) ==
    vm_mappages(s, pgtbl, PLIC_BASE, PLIC_BASE, DevPages * PGSIZE, PTE_R + PTE_W + PTE_X)
\* DEV_PHYS_BASE is the base of the PLIC; DEV_PHYS_BASE + KERNEL_BASE has the
\* bits 0..38 of DEV_PHYS_BASE
kvm_map_devices_week3(s, pgtbl) ==
    vm_mappages(s, pgtbl, PLIC_BASE, PLIC_BASE, DevPages * PGSIZE, PTE_R + PTE_W)

kvm_init_week3(s) ==
    Then(vm_create(s), LAMBDA a :
        IF a.ret = 0 THEN Halt(a, "kvm_init: failed to create kernel page table")
        ELSE Then(kvm_map_kernel_week3(a, a.ret), LAMBDA k :
             Then(kvm_map_devices_week3(k, a.ret), LAMBDA d : [d EXCEPT !.ret = a.ret])))

kvm_create_pgtbl_sys(s) ==
    Then(pmem_alloc(s, TRUE), LAMBDA a :
    Then(vm_mappages([a EXCEPT !.mem[a.ret] = Filled(0)], a.ret, UART_BASE, UART_BASE, PGSIZE,
                     PTE_R + PTE_W), LAMBDA u :
    Then(vm_mappages(u, a.ret, CLINT_BASE, CLINT_BASE, PGSIZE, PTE_R + PTE_W), LAMBDA c :
    Then(vm_mappages(c, a.ret, PLIC_BASE, PLIC_BASE, DevPages * PGSIZE, PTE_R + PTE_W), LAMBDA p :
    Then(vm_mappages(p, a.ret, KERNEL_BASE, KERNEL_BASE, etext - KERNEL_BASE,
                     PTE_R + PTE_X), LAMBDA t :
    Then(MapRange(t, a.ret, etext, etext, ALLOC_END - etext, PTE_R + PTE_W), LAMBDA d :
    Then(vm_mappages(d, a.ret, TRAMPOLINE, trampoline, PGSIZE, PTE_R + PTE_X), LAMBDA tr :
    Then(proc_mapstacks(tr, a.ret), LAMBDA k : [k EXCEPT !.ret = a.ret]))))))))

KvmInit ==
    /\ panicked = ""
    /\ kernel_pgtbl = 0
    /\ \E k \in {IF variant = "week3" THEN kvm_init_week3(Machine)
                 ELSE kvm_create_pgtbl_sys(Machine)} :
          /\ Commit(k)
          /\ kernel_pgtbl' = k.ret
          /\ last' = [Call("kvm_init") EXCEPT !.ret = k.ret]
    /\ UNCHANGED <<variant, end, boot, cpus, pool, held, procs, maps, nops>>

InitKvm ==
    \E v \in {"week3", "sys"} : \E e \in Ends(v) : \E b \in {pmem_init(v, e)} :
    /\ variant = v
    /\ end = e
    /\ mem = b.mem /\ zone = b.zone /\ panicked = "" /\ out = {} /\ twice = {}
    /\ kernel_pgtbl = 0
    /\ held = {}
    /\ procs = [i \in Slots |-> NoProc]
    /\ maps = {}
    /\ last = NoCall
    /\ cpus = NoCpus
    /\ pool = NoPool
    /\ boot = NoBoot
    /\ nops = MaxKvm

NextKvm ==
    \/ KvmInit
    \/ kernel_pgtbl # 0 /\ \E in_kernel \in BOOLEAN : Alloc(in_kernel)
    \/ kernel_pgtbl # 0 /\ \E page \in held : Free(page)
    \/ kernel_pgtbl # 0 /\ Create(1)
    \/ kernel_pgtbl # 0 /\ \E va \in VAs, pa \in held : Map(1, va, pa, PGSIZE, PTE_R + PTE_W + PTE_U)

SpecKvm == InitKvm /\ [][NextKvm]_vars

\* ------------------------------------------------- the pool of mmap records
\* mmap.c of sys, of lab7 and of the fifth line (src/系统调用（第五次）).  The
\* callers return a record they hold, or NULL.
MaxPool == 6
PoolLines == {"sys", "lab7", "fifth"}

RECURSIVE PushFront(_, _)
PushFront(p, i) ==
    IF i >= N_MMAP THEN p
    ELSE PushFront([p EXCEPT !.next[i] = p.next[p.list_head], !.next[p.list_head] = i], i + 1)

mmap_init(line) ==
    IF line = "lab7"
    THEN PushFront([NoPool EXCEPT !.line = line, !.list_head = 0], 1)
    ELSE [NoPool EXCEPT !.line = line, !.list_head = 0,
                        !.next = [i \in Nodes |-> IF i < N_MMAP - 1 THEN i + 1 ELSE NULL]]

\* the records on the free list, from node `n` on
RECURSIVE Chain(_, _, _)
Chain(p, n, fuel) ==
    IF n = NULL \/ fuel = 0 THEN <<>> ELSE <<n>> \o Chain(p, p.next[n], fuel - 1)
FirstFree(p) == IF p.line = "fifth" THEN p.list_head
                ELSE IF p.list_head = NULL THEN NULL ELSE p.next[p.list_head]
FreeSeq(p) == Chain(p, FirstFree(p), N_MMAP + 1)
FreeNodes(p) == {FreeSeq(p)[i] : i \in 1..Len(FreeSeq(p))}

\* the pool after mmap_region_alloc, with the record returned in `ret` and
\* the panic in `msg`
mmap_region_alloc(p) ==
    CASE p.line = "sys" ->
           IF p.list_head = NULL \/ p.next[p.list_head] = NULL
           THEN [pool |-> p, ret |-> NULL,
                 msg |-> "mmap_region_alloc: no available mmap region nodes (pool exhausted)"]
           ELSE [pool |-> [p EXCEPT !.next[p.list_head] = p.next[p.next[p.list_head]],
                                    !.next[p.next[p.list_head]] = NULL,
                                    !.handed = @ \cup {p.next[p.list_head]}],
                 ret |-> p.next[p.list_head], msg |-> ""]
      [] p.line = "lab7" ->
           IF p.next[p.list_head] = NULL
           THEN [pool |-> p, ret |-> NULL, msg |-> "mmap_region_alloc: no available mmap_region"]
           ELSE [pool |-> [p EXCEPT !.next[p.list_head] = p.next[p.next[p.list_head]],
                                    !.handed = @ \cup {p.next[p.list_head]}],
                 ret |-> p.next[p.list_head], msg |-> ""]
      [] OTHER ->
           IF p.list_head = NULL
           THEN [pool |-> p, ret |-> NULL, msg |-> "mmap_region_alloc: no free nodes!"]
           ELSE [pool |-> [p EXCEPT !.list_head = p.next[p.list_head],
                                    !.next[p.list_head] = NULL,
                                    !.handed = @ \cup {p.list_head}],
                 ret |-> p.list_head, msg |-> ""]

mmap_region_free(p, node) ==
    IF node = NULL
    THEN [pool |-> p, ret |-> NULL,
          msg |-> IF p.line = "sys" THEN "mmap_region_free: invalid NULL mmap pointer" ELSE ""]
    ELSE IF p.line = "fifth"
    THEN [pool |-> [p EXCEPT !.next[node] = p.list_head, !.list_head = node,
                             !.handed = @ \ {node}],
          ret |-> node, msg |-> ""]
    ELSE [pool |-> [p EXCEPT !.next[node] = p.next[p.list_head], !.next[p.list_head] = node,
                             !.handed = @ \ {node}],
          ret |-> node, msg |-> ""]

PoolSame == UNCHANGED <<variant, end, mem, zone, out, twice, held, procs, kernel_pgtbl, maps,
                        boot, cpus>>

PoolAlloc ==
    /\ CanCall
    /\ \E r \in {mmap_region_alloc(pool)} :
          /\ pool' = r.pool
          /\ panicked' = r.msg
          /\ last' = [Call("mmap_region_alloc") EXCEPT !.ret = r.ret,
                                                       !.cnt = <<Len(FreeSeq(pool)), 0>>]
    /\ nops' = nops - 1
    /\ PoolSame

PoolFree(node) ==
    /\ CanCall
    /\ \E r \in {mmap_region_free(pool, node)} :
          /\ pool' = r.pool
          /\ panicked' = r.msg
          /\ last' = [Call("mmap_region_free") EXCEPT !.ret = node,
                                                      !.cnt = <<Len(FreeSeq(pool)), 0>>]
    /\ nops' = nops - 1
    /\ PoolSame

InitPool ==
    /\ Booted
    /\ variant = "lab"
    /\ end = ALLOC_BEGIN
    /\ boot = NoBoot
    /\ nops = MaxPool

\* main() calls mmap_init once, before any process runs
PoolInit ==
    /\ panicked = ""
    /\ pool = NoPool
    /\ \E line \in PoolLines : pool' = mmap_init(line)
    /\ last' = Call("mmap_init")
    /\ UNCHANGED <<panicked, nops>>
    /\ PoolSame

NextPool ==
    \/ PoolInit
    \/ pool # NoPool /\ PoolAlloc
    \/ pool # NoPool /\ \E node \in pool.handed \cup {NULL} : PoolFree(node)

SpecPool == InitPool /\ [][NextPool]_vars

\* ------------------------------------------------------ user memory of sys
\* uvm.c and sys_brk of the sys line, called by the first process.
MaxUvm == 4

\* the loop of uvm_munmap and of uvm_heap_ungrow: the frame behind a valid
\* entry is freed and the entry loses PTE_V
RECURSIVE DropLoop_sys(_, _, _, _)
DropLoop_sys(s, pgtbl, va, end_va) ==
    IF ~Running(s) \/ va >= end_va THEN s
    ELSE Then(vm_getpte_sys(s, pgtbl, va, FALSE), LAMBDA g :
             IF g.pte = NullPte THEN DropLoop_sys(g, pgtbl, va + PGSIZE, end_va)
             ELSE IF ~PteMapped(g) THEN Fault(g)
             ELSE IF ~PteHas(PteLoad(g), PTE_V) THEN DropLoop_sys(g, pgtbl, va + PGSIZE, end_va)
             ELSE Then(pmem_free(g, PTE_TO_PA(PteLoad(g)), FALSE), LAMBDA f :
                       DropLoop_sys(PteStore(f, PteClear(PteLoad(f), PTE_V)), pgtbl,
                                    va + PGSIZE, end_va)))

RECURSIVE GrowLoop_sys(_, _, _, _)
GrowLoop_sys(s, pgtbl, va, aligned_new_heap) ==
    IF ~Running(s) \/ va >= aligned_new_heap THEN s
    ELSE Then(pmem_alloc(s, FALSE), LAMBDA a :
        IF a.ret = 0 THEN Halt(a, "uvm_heap_grow: failed to alloc physical page")
        ELSE Then(vm_mappages_sys([a EXCEPT !.mem[a.ret] = Filled(0)], pgtbl, va, a.ret, PGSIZE,
                                  PTE_U + PTE_R + PTE_W + PTE_V),
                  LAMBDA m : GrowLoop_sys(m, pgtbl, va + PGSIZE, aligned_new_heap)))

\* `ret` is the new heap top
uvm_heap_grow_sys(s, pgtbl, heap_top, len) ==
    IF len = 0 \/ pgtbl = 0 THEN [s EXCEPT !.ret = heap_top]
    ELSE IF heap_top + len > TRAPFRAME - 2 * PGSIZE
    THEN Halt(s, "uvm_heap_grow: heap exceeds maximum limit")
    ELSE Then(GrowLoop_sys(s, pgtbl, PG_ROUND_UP(heap_top), PG_ROUND_DOWN(heap_top + len)),
              LAMBDA g : [g EXCEPT !.ret = heap_top + len])

uvm_heap_ungrow_sys(s, pgtbl, heap_top, len) ==
    IF len = 0 \/ pgtbl = 0 THEN [s EXCEPT !.ret = heap_top]
    ELSE IF heap_top - len < 2 * PGSIZE
    THEN Halt(s, "uvm_heap_ungrow: heap below minimum limit")
    ELSE Then(DropLoop_sys(s, pgtbl, PG_ROUND_UP(heap_top - len), PG_ROUND_DOWN(heap_top)),
              LAMBDA d : [d EXCEPT !.ret = heap_top - len])

\* sys_brk of sys; `ret` is what the call returns and `pte.f` the heap_top
\* the process is left with
sys_brk_sys(s, pr, new_heap_top) ==
    IF new_heap_top = 0 THEN [s EXCEPT !.ret = pr.heap_top, !.pte = [f |-> pr.heap_top, i |-> 0]]
    ELSE IF new_heap_top < pr.heap_top
    THEN Then(uvm_heap_ungrow_sys(s, pr.pgtbl, pr.heap_top, (pr.heap_top - new_heap_top) % U32),
              LAMBDA u : IF u.ret # new_heap_top
                         THEN [u EXCEPT !.ret = 0 - 1, !.pte = [f |-> pr.heap_top, i |-> 0]]
                         ELSE [u EXCEPT !.pte = [f |-> u.ret, i |-> 0]])
    ELSE IF new_heap_top = pr.heap_top
    THEN [s EXCEPT !.ret = pr.heap_top, !.pte = [f |-> pr.heap_top, i |-> 0]]
    ELSE Then(uvm_heap_grow_sys(s, pr.pgtbl, pr.heap_top, (new_heap_top - pr.heap_top) % U32),
              LAMBDA g : [g EXCEPT !.pte = [f |-> g.ret, i |-> 0]])

RECURSIVE MmapLoop_sys(_, _, _, _, _, _)
MmapLoop_sys(s, pgtbl, begin, npages, perm, i) ==
    IF ~Running(s) \/ i >= npages THEN s
    ELSE Then(pmem_alloc(s, FALSE), LAMBDA a :
        IF a.ret = 0 THEN Halt(a, "uvm_mmap: failed to alloc physical page")
        ELSE Then(vm_mappages_sys([a EXCEPT !.mem[a.ret] = Filled(0)], pgtbl,
                                  begin + i * PGSIZE, a.ret, PGSIZE, perm),
                  LAMBDA m : MmapLoop_sys(m, pgtbl, begin, npages, perm, i + 1)))

\* uvm_mmap and uvm_munmap of sys on the machine s and the pool p of mmap
\* records: the machine and the pool they leave
uvm_mmap_sys(s, p, pr, begin, npages, perm) ==
    IF npages = 0 THEN [m |-> s, pool |-> p]
    ELSE IF begin % PGSIZE # 0 THEN [m |-> Halt(s, "uvm_mmap: begin not aligned"), pool |-> p]
    ELSE IF pr.pgtbl = 0 THEN [m |-> Halt(s, "uvm_mmap: invalid current process"), pool |-> p]
    ELSE IF ~(begin >= pr.heap_top /\ begin + npages * PGSIZE < TRAPFRAME - PGSIZE)
    THEN [m |-> Halt(s, "uvm_mmap: invalid mmap address range"), pool |-> p]
    ELSE Bind(mmap_region_alloc(p), LAMBDA r :
            IF r.msg # "" THEN [m |-> Halt(s, r.msg), pool |-> p]
            ELSE [m |-> MmapLoop_sys(s, pr.pgtbl, begin, npages,
                                     BitOr(perm, PTE_U + PTE_V), 0),
                  pool |-> r.pool])

\* prev is NULL and curr->next is NULL, so neither merge is taken
uvm_munmap_sys(s, p, pr, begin, npages) ==
    IF npages = 0 THEN [m |-> s, pool |-> p]
    ELSE IF begin % PGSIZE # 0 THEN [m |-> Halt(s, "uvm_munmap: begin not aligned"), pool |-> p]
    ELSE IF pr.pgtbl = 0 THEN [m |-> Halt(s, "uvm_munmap: invalid current process"), pool |-> p]
    ELSE IF begin + npages * PGSIZE > TRAPFRAME - PGSIZE
    THEN [m |-> Halt(s, "uvm_munmap: invalid address range"), pool |-> p]
    ELSE Bind(mmap_region_alloc(p), LAMBDA r :
            IF r.msg # "" THEN [m |-> Halt(s, r.msg), pool |-> p]
            ELSE Bind(DropLoop_sys(s, pr.pgtbl, begin, begin + npages * PGSIZE), LAMBDA d :
                    [m |-> d,
                     pool |-> IF Running(d) THEN mmap_region_free(r.pool, r.ret).pool
                              ELSE r.pool]))

UserFree(z) == Len(ListFrom(mem, z["u"].head, NFrames + 1))
UvmSame == UNCHANGED <<variant, end, kernel_pgtbl, boot, cpus, held, maps>>

UvmFirst ==
    /\ CanCall
    /\ last.op = "boot"
    /\ \E m \in {proc_make_first_sys(Machine)} :
          /\ Commit(m)
          /\ procs' = IF Running(m) THEN [procs EXCEPT ![proczero] = FirstProc(variant, m)]
                      ELSE procs
          /\ last' = [Call("proc_make_first") EXCEPT !.slot = proczero, !.ret = m.ret]
    /\ pool' = mmap_init("sys")
    /\ nops' = nops - 1
    /\ UvmSame

UvmMmap(begin, npages) ==
    /\ CanCall
    /\ procs[proczero].state = "RUNNABLE"
    /\ \E r \in {uvm_mmap_sys(Machine, pool, procs[proczero], begin, npages,
                              PTE_R + PTE_W + PTE_X + PTE_U + PTE_V)} :
          /\ Commit(r.m)
          /\ pool' = r.pool
    /\ last' = [Call("uvm_mmap") EXCEPT !.slot = proczero, !.va = begin, !.len = npages * PGSIZE,
                                        !.cnt = <<Len(FreeSeq(pool)), UserFree(zone)>>]
    /\ nops' = nops - 1
    /\ UNCHANGED procs /\ UvmSame

UvmMunmap(begin, npages) ==
    /\ CanCall
    /\ procs[proczero].state = "RUNNABLE"
    /\ \E r \in {uvm_munmap_sys(Machine, pool, procs[proczero], begin, npages)} :
          /\ Commit(r.m)
          /\ pool' = r.pool
    /\ last' = [Call("uvm_munmap") EXCEPT !.slot = proczero, !.va = begin, !.len = npages * PGSIZE,
                                          !.cnt = <<Len(FreeSeq(pool)), UserFree(zone)>>]
    /\ nops' = nops - 1
    /\ UNCHANGED procs /\ UvmSame

\* sys_brk; a call that shrinks the heap records the pages it goes over
UvmBrk(new_heap_top) ==
    /\ CanCall
    /\ procs[proczero].state = "RUNNABLE"
    /\ \E b \in {sys_brk_sys(Machine, procs[proczero], new_heap_top)} :
          /\ Commit(b)
          /\ procs' = IF Running(b) THEN [procs EXCEPT ![proczero].heap_top = b.pte.f] ELSE procs
          /\ last' = [Call("sys_brk") EXCEPT
                         !.slot = proczero, !.ret = b.ret, !.pa = new_heap_top,
                         !.va = PG_ROUND_UP(b.pte.f),
                         !.len = IF PG_ROUND_DOWN(procs[proczero].heap_top) > PG_ROUND_UP(b.pte.f)
                                 THEN PG_ROUND_DOWN(procs[proczero].heap_top) - PG_ROUND_UP(b.pte.f)
                                 ELSE 0,
                         !.cnt = <<procs[proczero].heap_top, 0>>]
    /\ nops' = nops - 1
    /\ UNCHANGED pool /\ UvmSame

UvmUnmap(va, npages, freeit) ==
    /\ CanCall
    /\ procs[proczero].state = "RUNNABLE"
    /\ \E u \in {vm_unmappages(Machine, procs[proczero].pgtbl, va, npages * PGSIZE, freeit)} :
          Commit(u)
    /\ last' = [Call("vm_unmappages") EXCEPT !.slot = proczero, !.va = va,
                                             !.len = npages * PGSIZE, !.freeit = freeit]
    /\ nops' = nops - 1
    /\ UNCHANGED <<procs, pool>> /\ UvmSame

\* heap_top as proc_make_first of sys leaves it, and addresses around it
UvmTop == initcode_pa + PGSIZE
UvmBegins == {UvmTop + 4 * PGSIZE, UvmTop + 5 * PGSIZE}
UvmPages == {1, 2}
UvmTargets == {0, UvmTop - 1, UvmTop + 1, UvmTop + PGSIZE, UvmTop + 2 * PGSIZE + 1,
               UvmTop + U32 + PGSIZE}
InitUvm == Booted /\ variant = "sys" /\ boot = NoBoot /\ nops = MaxUvm

NextUvm ==
    \/ UvmFirst
    \/ \E begin \in UvmBegins, npages \in UvmPages : UvmMmap(begin, npages)
    \/ \E begin \in UvmBegins, npages \in UvmPages : UvmMunmap(begin, npages)
    \/ \E target \in UvmTargets : UvmBrk(target)
    \/ \E va \in UvmBegins \cup {UvmTop}, freeit \in BOOLEAN : UvmUnmap(va, 1, freeit)

SpecUvm == InitUvm /\ [][NextUvm]_vars

\* ------------------------------- proc_wait and proc_exit on several harts
\* The kernel threads of lab7 step by step: procs[p].ctx.pc is the line of
\* proc.c the thread of p stands at, procs[p].cpu the hart that runs it,
\* procs[p].lk its spinlock.
MaxWait == 3
WaitHarts == 0..(MaxHarts - 1)
WaitAddrs == {0, TRAPFRAME - PGSIZE}
ExitStates == {0, 3}
HartFree(h) == \A q \in Slots : procs[q].cpu # h
OnHart(p, pc) == panicked = "" /\ procs[p].state = "RUNNING" /\ procs[p].ctx.pc = pc
WaitSame == UNCHANGED <<variant, end, kernel_pgtbl, boot, cpus, pool, held, maps, nops, last>>
WaitQuiet == UNCHANGED <<mem, zone, panicked, out, twice>>

\* proc_scheduler on hart h finds p RUNNABLE under p->lk and switches to it;
\* the thread goes on where its context was saved, holding p->lk.  A process
\* that is not RUNNABLE is locked and unlocked with no effect.
Dispatch(h, p) ==
    /\ panicked = ""
    /\ HartFree(h)
    /\ procs[p].lk.locked = 0
    /\ procs[p].state = "RUNNABLE"
    /\ procs' = [procs EXCEPT ![p].lk = [locked |-> 1, cpuid |-> h],
                              ![p].state = "RUNNING", ![p].cpu = h]
    /\ WaitQuiet /\ WaitSame

\* the first run of a process: fork_return releases p->lk and goes to user mode
ForkReturn(p) ==
    /\ OnHart(p, "ret")
    /\ procs' = [procs EXCEPT ![p].lk = NoLock, ![p].ctx.pc = "user"]
    /\ WaitQuiet /\ WaitSame

\* proc_wait(addr), entered from user mode
WaitCall(p, addr) ==
    /\ OnHart(p, "user")
    /\ procs' = [procs EXCEPT ![p].ctx = [NoCtx EXCEPT !.pc = "w369", !.addr = addr]]
    /\ WaitQuiet /\ WaitSame

\* spinlock_acquire(&p->lk), then the scan starts
WaitAcquire(p) ==
    /\ OnHart(p, "w369")
    /\ procs[p].lk.locked = 0
    /\ procs' = [procs EXCEPT ![p].lk = [locked |-> 1, cpuid |-> procs[p].cpu],
                              ![p].ctx.pc = "w374", ![p].ctx.i = 1, ![p].ctx.havekids = 0]
    /\ WaitQuiet /\ WaitSame

\* one round of the loop over procs, and what follows the loop
WaitScan(p) ==
    /\ OnHart(p, "w374")
    /\ procs' = IF procs[p].ctx.i > NPROC
                THEN IF procs[p].ctx.havekids = 0
                     THEN [procs EXCEPT ![p].lk = NoLock, ![p].ctx.pc = "user", ![p].ctx.ret = 0 - 1]
                     ELSE [procs EXCEPT ![p].ctx.pc = "w413"]
                ELSE IF procs[procs[p].ctx.i].parent = p
                     THEN [procs EXCEPT ![p].ctx.pc = "w377"]
                     ELSE [procs EXCEPT ![p].ctx.i = @ + 1]
    /\ WaitQuiet /\ WaitSame

\* uvm_copyout of pp->exit_state to the address the caller of wait gave
copyout_exit_state(s, pgtbl, addr, exit_state) ==
    IF addr = 0 THEN s
    ELSE Then(UserPage_lab(s, pgtbl, PG_ROUND_DOWN(addr),
                           "uvm_copyout: invalid or unallocated user page"), LAMBDA g :
              WrC(g, g.ret + (addr - PG_ROUND_DOWN(addr)), exit_state))

\* the child pp under pp->lk: a ZOMBIE is reaped and its pid returned, any
\* other child is passed over
WaitChild(p) ==
    /\ OnHart(p, "w377")
    /\ \E pp \in {procs[p].ctx.i} :
          /\ procs[pp].lk.locked = 0
          /\ IF procs[pp].state = "ZOMBIE"
             THEN \E f \in {Then(copyout_exit_state(Machine, procs[p].pgtbl, procs[p].ctx.addr,
                                                    procs[pp].exit_state), LAMBDA c :
                                 proc_free(c, procs[pp].tf, procs[pp].pgtbl))} :
                     /\ Commit(f)
                     /\ procs' = IF Running(f)
                                 THEN [procs EXCEPT ![pp] = NoProc, ![p].lk = NoLock,
                                                    ![p].ctx.pc = "user", ![p].ctx.ret = pp]
                                 ELSE procs
             ELSE /\ procs' = [procs EXCEPT ![p].ctx.havekids = 1, ![p].ctx.i = @ + 1,
                                            ![p].ctx.pc = "w374"]
                  /\ WaitQuiet
    /\ WaitSame

\* proc_sleep(p, &p->lk): SLEEPING on itself, proc_sched, and the scheduler
\* of the hart releases p->lk
WaitSleep(p) ==
    /\ OnHart(p, "w413")
    /\ procs' = [procs EXCEPT ![p].sleep_space = p, ![p].state = "SLEEPING", ![p].cpu = 0 - 1,
                              ![p].lk = NoLock, ![p].ctx.pc = "w569"]
    /\ WaitQuiet /\ WaitSame

\* back from proc_sched in proc_sleep, p->lk held: the scan starts again
WaitWoken(p) ==
    /\ OnHart(p, "w569")
    /\ procs' = [procs EXCEPT ![p].sleep_space = 0, ![p].ctx.pc = "w374", ![p].ctx.i = 1,
                              ![p].ctx.havekids = 0]
    /\ WaitQuiet /\ WaitSame

\* proc_exit(exit_state), entered from user mode
ExitCall(p, exit_state) ==
    /\ OnHart(p, "user")
    /\ IF p = proczero
       THEN panicked' = "proc_exit: proczero exiting" /\ UNCHANGED procs
       ELSE /\ procs' = [procs EXCEPT ![p].ctx = [NoCtx EXCEPT !.pc = "e453", !.exit_state = exit_state]]
            /\ UNCHANGED panicked
    /\ UNCHANGED <<mem, zone, out, twice>> /\ WaitSame

\* proc_reparent(p)
ExitReparent(p) ==
    /\ OnHart(p, "e453")
    /\ procs' = [i \in Slots |->
                    IF i = p THEN [procs[i] EXCEPT !.ctx.pc = "e459"]
                    ELSE IF procs[i].parent = p THEN [procs[i] EXCEPT !.parent = proczero]
                    ELSE procs[i]]
    /\ WaitQuiet /\ WaitSame

\* proc_wakeup_one(p->parent), under the lock of the parent
ExitWakeup(p) ==
    /\ OnHart(p, "e459")
    /\ \E q \in {procs[p].parent} :
          /\ procs[q].lk.locked = 0
          /\ procs' = [procs EXCEPT
                          ![q].state = IF @ = "SLEEPING" /\ procs[q].sleep_space = q
                                       THEN "RUNNABLE" ELSE @,
                          ![p].ctx.pc = "e462"]
    /\ WaitQuiet /\ WaitSame

\* spinlock_acquire(&p->lk), exit_state, ZOMBIE, proc_sched; the scheduler of
\* the hart releases p->lk
ExitZombie(p) ==
    /\ OnHart(p, "e462")
    /\ procs[p].lk.locked = 0
    /\ procs' = [procs EXCEPT ![p].exit_state = procs[p].ctx.exit_state, ![p].state = "ZOMBIE",
                              ![p].cpu = 0 - 1, ![p].lk = NoLock, ![p].ctx.pc = "dead"]
    /\ WaitQuiet /\ WaitSame

KernelStep(p) ==
    \/ ForkReturn(p)
    \/ WaitAcquire(p)
    \/ WaitScan(p)
    \/ WaitChild(p)
    \/ WaitSleep(p)
    \/ WaitWoken(p)
    \/ ExitReparent(p)
    \/ ExitWakeup(p)
    \/ ExitZombie(p)

InitWait == Booted /\ variant = "lab" /\ boot = NoBoot /\ nops = MaxWait

NextWait ==
    \/ ProcMakeFirst
    \/ \E p \in Slots : Fork(p)
    \/ \E h \in WaitHarts, p \in Slots : Dispatch(h, p)
    \/ \E p \in Slots, addr \in WaitAddrs : WaitCall(p, addr)
    \/ \E p \in Slots, exit_state \in ExitStates : ExitCall(p, exit_state)
    \/ \E p \in Slots : KernelStep(p)

SpecWait == InitWait /\ [][NextWait]_vars

\* Every hart keeps running its scheduler loop and every thread in the kernel
\* keeps running; what user code calls is up to the user code.
SpecWaitFair ==
    /\ SpecWait
    /\ WF_vars(\E h \in WaitHarts, p \in Slots : Dispatch(h, p))
    /\ \A p \in Slots : WF_vars(KernelStep(p))

\* ------------------------------------- copies at the top of the user space
\* The copy functions called with the addresses of the trap frame and of the
\* trampoline, next to an address of a user page.
MaxTrap == 5
TopAddrs == {PGSIZE, TRAPFRAME, TRAPFRAME + 1, TRAMPOLINE}
InitTrap == Booted /\ variant \in {"sys", "lab"} /\ boot = NoBoot /\ nops = MaxTrap

NextTrap ==
    \/ Create(1)
    \/ Cardinality(held) < MaxBufs /\ Alloc(FALSE)
    \/ \E page \in held : Fill(page, 1)
    \/ \E pa \in held : Map(1, PGSIZE, pa, PGSIZE, PTE_R + PTE_W + PTE_U)
    \/ \E b \in held, src \in TopAddrs, len \in CopyLens : CopyIn(1, b, src, len)
    \/ \E b \in held, dst \in TopAddrs, len \in CopyLens : CopyOut(1, dst, b, len)
    \/ \E b \in held, src \in TopAddrs, maxlen \in CopyLens : CopyInStr(1, b, src, maxlen)

SpecTrap == InitTrap /\ [][NextTrap]_vars

\* ------------------------------------------- walks while the frames run out
\* week3 and lab: the region the tables come from is drained frame by frame,
\* and the tree of process 1 is walked now and then.
MaxStarve == UserPages + 2
InitStarve == Booted /\ variant \in {"week3", "lab"} /\ boot = NoBoot /\ nops = MaxStarve

NextStarve ==
    \/ Create(1)
    \/ \E in_kernel \in {variant = "week3"} : Alloc(in_kernel)
    \/ \E va \in VAs, alloc \in BOOLEAN : GetPte(1, va, alloc)

SpecStarve == InitStarve /\ [][NextStarve]_vars

\* ---------------------------------------- the mmap free regions of lab6
\* procs[p].mmap is the list p->mmap of free regions, one record of the pool
\* per element: the record `node` with its fields begin and npages, in list
\* order.  A step of the list functions yields the list, the pool and the
\* message of the panic it ran into.
MaxMmap == 5
ListStep(list, p, msg) == [list |-> list, pool |-> p, msg |-> msg]
RemoveAt(L, k) == [j \in 1..(Len(L) - 1) |-> IF j < k THEN L[j] ELSE L[j + 1]]
InsertAt(L, k, x) ==
    [j \in 1..(Len(L) + 1) |-> IF j < k THEN L[j] ELSE IF j = k THEN x ELSE L[j - 1]]
RegionEnd(r) == r.begin + r.npages * PGSIZE

\* uvm_mmap: the first free region that holds the whole request, 0 if none
RECURSIVE FindRegion(_, _, _, _)
FindRegion(L, region_start, region_length, k) ==
    IF k > Len(L) THEN 0
    ELSE IF region_start >= L[k].begin /\ region_start + region_length <= RegionEnd(L[k]) THEN k
    ELSE FindRegion(L, region_start, region_length, k + 1)

\* uvm_mmap: the request is cut out of the free region k
SplitRegion(L, p, k, region_start, page_count) ==
    IF k = 0 THEN ListStep(L, p, "")
    ELSE IF region_start = L[k].begin /\ page_count = L[k].npages
    THEN ListStep(RemoveAt(L, k), mmap_region_free(p, L[k].node).pool, "")
    ELSE IF region_start = L[k].begin
    THEN ListStep([L EXCEPT ![k].begin = @ + page_count * PGSIZE, ![k].npages = @ - page_count], p, "")
    ELSE IF region_start + page_count * PGSIZE = RegionEnd(L[k])
    THEN ListStep([L EXCEPT ![k].npages = @ - page_count], p, "")
    ELSE Bind(mmap_region_alloc(p), LAMBDA r :
         IF r.ret = NULL THEN ListStep(L, p, r.msg)
         ELSE ListStep(InsertAt([L EXCEPT ![k].npages = (region_start - L[k].begin) \div PGSIZE],
                                k + 1,
                                [node |-> r.ret, begin |-> region_start + page_count * PGSIZE,
                                 npages |-> (RegionEnd(L[k]) - region_start - page_count * PGSIZE)
                                            \div PGSIZE]),
                       r.pool, ""))

\* vm_merge_mmap_regions(a, b, true) for the neighbours k and k + 1
vm_merge_mmap_regions(st, k) ==
    IF st.msg # "" THEN st
    ELSE IF RegionEnd(st.list[k]) # st.list[k + 1].begin
    THEN [st EXCEPT !.msg = "vm_merge_mmap_regions: non-contiguous regions"]
    ELSE ListStep(RemoveAt([st.list EXCEPT ![k].npages = @ + st.list[k + 1].npages], k + 1),
                  mmap_region_free(st.pool, st.list[k + 1].node).pool, "")

\* uvm_munmap: the element after which the new region is linked
RECURSIVE InsertAfter(_, _, _)
InsertAfter(L, region_start, c) ==
    IF c < Len(L) /\ L[c + 1].begin < region_start THEN InsertAfter(L, region_start, c + 1) ELSE c

InsertPos(L, region_start) ==
    IF L = <<>> \/ region_start < L[1].begin THEN 1 ELSE InsertAfter(L, region_start, 1) + 1

\* uvm_munmap: a new record for the region, linked in by address, merged with
\* its successor and then with its predecessor
InsertRegion(L, p, region_start, page_count) ==
    Bind(mmap_region_alloc(p), LAMBDA r :
    IF r.ret = NULL THEN ListStep(L, p, r.msg)
    ELSE Bind(InsertPos(L, region_start), LAMBDA k :
         Bind(ListStep(InsertAt(L, k, [node |-> r.ret, begin |-> region_start,
                                       npages |-> page_count]), r.pool, ""), LAMBDA a :
         Bind(IF k < Len(a.list) /\ RegionEnd(a.list[k]) = a.list[k + 1].begin
              THEN vm_merge_mmap_regions(a, k) ELSE a, LAMBDA b :
              IF b.msg = "" /\ k > 1 /\ RegionEnd(b.list[k - 1]) = b.list[k].begin
              THEN vm_merge_mmap_regions(b, k - 1) ELSE b))))

\* sys_mmap with start = 0: the begin of the first free region that is large
\* enough, 0 if there is none
RECURSIVE FirstFit(_, _, _)
FirstFit(L, map_page_count, k) ==
    IF k > Len(L) THEN 0
    ELSE IF L[k].npages >= map_page_count THEN L[k].begin
    ELSE FirstFit(L, map_page_count, k + 1)

MmapSame == UNCHANGED <<variant, end, kernel_pgtbl, boot, cpus, held, maps>>
MmapCall(op, start, len) ==
    [Call(op) EXCEPT !.slot = proczero, !.va = start, !.len = len,
                     !.cnt = <<Len(FreeSeq(pool)), UserFree(zone)>>]

\* main() of lab7: mmap_init, then proc_make_first
MmapFirst ==
    /\ CanCall
    /\ variant = "lab"
    /\ last.op = "boot"
    /\ \E m \in {proc_make_first(Machine)} :
          /\ Commit(m)
          /\ procs' = IF Running(m) THEN [procs EXCEPT ![proczero] = FirstProc(variant, m)]
                      ELSE procs
          /\ last' = [Call("proc_make_first") EXCEPT !.slot = proczero, !.ret = m.ret]
    /\ pool' = mmap_init("lab7")
    /\ nops' = nops - 1
    /\ MmapSame

\* uvm_mmap of lab6, called by sys_mmap for the first process
UvmMmapLab(region_start, page_count) ==
    \E st \in {SplitRegion(procs[proczero].mmap, pool,
                           FindRegion(procs[proczero].mmap, region_start, page_count * PGSIZE, 1),
                           region_start, page_count)} :
       /\ pool' = st.pool
       /\ procs' = [procs EXCEPT ![proczero].mmap = st.list]
       /\ IF st.msg # ""
          THEN panicked' = st.msg /\ UNCHANGED <<mem, zone, out, twice>>
          ELSE \E m \in {uvm_mmap_lab(Machine, procs[proczero].pgtbl, region_start, page_count,
                                      PTE_R + PTE_W)} : Commit(m)

\* sys_mmap of lab6
SysMmapLab(map_start_addr, map_total_length) ==
    /\ CanCall
    /\ procs[proczero].state = "RUNNABLE"
    /\ \E start \in {IF map_start_addr = 0
                     THEN FirstFit(procs[proczero].mmap, map_total_length \div PGSIZE, 1)
                     ELSE map_start_addr} :
          /\ IF map_total_length = 0 \/ map_total_length % PGSIZE # 0 \/ start = 0
                \/ start % PGSIZE # 0
             THEN UNCHANGED <<mem, zone, panicked, out, twice, procs, pool>>
             ELSE UvmMmapLab(start, map_total_length \div PGSIZE)
          /\ last' = [MmapCall("sys_mmap", map_start_addr, map_total_length) EXCEPT
                         !.ret = IF map_total_length = 0 \/ map_total_length % PGSIZE # 0
                                    \/ start = 0 \/ start % PGSIZE # 0
                                 THEN 0 - 1 ELSE start]
    /\ nops' = nops - 1
    /\ MmapSame

\* sys_munmap of lab6 with uvm_munmap
SysMunmapLab(unmap_start_addr, unmap_total_length) ==
    /\ CanCall
    /\ procs[proczero].state = "RUNNABLE"
    /\ IF unmap_start_addr % PGSIZE # 0 \/ unmap_total_length = 0
          \/ unmap_total_length % PGSIZE # 0
       THEN UNCHANGED <<mem, zone, panicked, out, twice, procs, pool>>
       ELSE \E st \in {InsertRegion(procs[proczero].mmap, pool, unmap_start_addr,
                                    unmap_total_length \div PGSIZE)} :
               /\ pool' = st.pool
               /\ procs' = [procs EXCEPT ![proczero].mmap = st.list]
               /\ IF st.msg # ""
                  THEN panicked' = st.msg /\ UNCHANGED <<mem, zone, out, twice>>
                  ELSE \E m \in {vm_unmappages_lab(Machine, procs[proczero].pgtbl, unmap_start_addr,
                                                   unmap_total_length, TRUE)} : Commit(m)
    /\ last' = [MmapCall("sys_munmap", unmap_start_addr, unmap_total_length) EXCEPT
                   !.ret = IF unmap_start_addr % PGSIZE # 0 \/ unmap_total_length = 0
                              \/ unmap_total_length % PGSIZE # 0
                           THEN 0 - 1 ELSE 0]
    /\ nops' = nops - 1
    /\ MmapSame

MapBase == 8 * PGSIZE
LabStarts == {0, MapBase, MapBase + 1, MapBase + PGSIZE, MapBase + 2 * PGSIZE}
LabLens == {0, PGSIZE, 2 * PGSIZE, 3 * PGSIZE}
InitMmap == Booted /\ variant = "lab" /\ boot = NoBoot /\ nops = MaxMmap

NextMmap ==
    \/ MmapFirst
    \/ \E start \in LabStarts, len \in LabLens : SysMmapLab(start, len)
    \/ \E start \in LabStarts, len \in LabLens : SysMunmapLab(start, len)

SpecMmap == InitMmap /\ [][NextMmap]_vars

\* ------------------------------------------- the spinlocks on several harts
\* Every hart calls spinlock_acquire and spinlock_release on the locks and
\* push_off and pop_off on its own, nested in any order.  A pop_off is one
\* that closes a push_off of the caller, or one by a caller that has nothing
\* open; intr_on is called with nothing open, as proc_scheduler does.
MaxLock == 3

LockCall(h, in_kernel) ==
    /\ CanCall
    /\ At(h, "idle")
    /\ cpus' = [cpus EXCEPT !.hart[h] = [pc |-> "acquire", op |-> "spinlock_acquire",
                                         in_kernel |-> in_kernel, node |-> 0]]
    /\ nops' = nops - 1
    /\ UNCHANGED <<mem, zone, panicked, out, twice, held, last>> /\ SmpSame

UnlockCall(h, in_kernel) ==
    /\ CanCall
    /\ At(h, "idle")
    /\ cpus' = [cpus EXCEPT !.hart[h] = [pc |-> "release", op |-> "spinlock_release",
                                         in_kernel |-> in_kernel, node |-> 0]]
    /\ nops' = nops - 1
    /\ UNCHANGED <<mem, zone, panicked, out, twice, held, last>> /\ SmpSame

PushOff(h) ==
    /\ CanCall
    /\ At(h, "idle")
    /\ cpus' = [cpus EXCEPT !.cpu[h] = [push_off(Noted(@)) EXCEPT !.pushes = @ + 1]]
    /\ last' = [Call("push_off") EXCEPT !.slot = h]
    /\ nops' = nops - 1
    /\ UNCHANGED <<mem, zone, panicked, out, twice, held>> /\ SmpSame

PopOff(h) ==
    /\ CanCall
    /\ At(h, "idle")
    /\ cpus.cpu[h].pushes > 0 \/ cpus.cpu[h].holds = {}
    /\ \E r \in {pop_off(cpus.cpu[h])} :
          /\ cpus' = [cpus EXCEPT !.cpu[h] =
                         [r.cpu EXCEPT !.pushes = IF r.panic = "" THEN @ - 1 ELSE @]]
          /\ panicked' = r.panic
    /\ last' = [Call("pop_off") EXCEPT !.slot = h]
    /\ nops' = nops - 1
    /\ UNCHANGED <<mem, zone, out, twice, held>> /\ SmpSame

\* intr_on
IntrOn(h) ==
    /\ CanCall
    /\ At(h, "idle")
    /\ cpus.cpu[h].pushes = 0 /\ cpus.cpu[h].holds = {}
    /\ cpus' = [cpus EXCEPT !.cpu[h].sie = 1]
    /\ last' = [Call("intr_on") EXCEPT !.slot = h]
    /\ nops' = nops - 1
    /\ UNCHANGED <<mem, zone, panicked, out, twice, held>> /\ SmpSame

\* intr_off
IntrOff(h) ==
    /\ CanCall
    /\ At(h, "idle")
    /\ cpus' = [cpus EXCEPT !.cpu[h].sie = 0]
    /\ last' = [Call("intr_off") EXCEPT !.slot = h]
    /\ nops' = nops - 1
    /\ UNCHANGED <<mem, zone, panicked, out, twice, held>> /\ SmpSame

InitLock ==
    /\ \E v \in {"week3", "lab"} : \E b \in {kvm_init(pmem_init(v, ALLOC_BEGIN))} :
          /\ variant = v
          /\ mem = b.mem
          /\ zone = b.zone
          /\ panicked = b.panicked
          /\ out = b.out
          /\ twice = b.twice
          /\ kernel_pgtbl = b.ret
    /\ end = ALLOC_BEGIN
    /\ held = {}
    /\ procs = [i \in Slots |-> NoProc]
    /\ maps = {}
    /\ last = NoCall
    /\ \E on \in [SmpHarts -> {0, 1}] :
          cpus = [NoCpus EXCEPT !.cpu = [h \in Harts |->
                                           [NoCpu EXCEPT !.sie = IF h \in SmpHarts THEN on[h] ELSE 0]]]
    /\ pool = NoPool
    /\ boot = NoBoot
    /\ nops = MaxLock

NextLock ==
    \/ \E h \in SmpHarts : \E in_kernel \in BOOLEAN : LockCall(h, in_kernel)
    \/ \E h \in SmpHarts : \E in_kernel \in BOOLEAN : UnlockCall(h, in_kernel)
    \/ \E h \in SmpHarts : PushOff(h)
    \/ \E h \in SmpHarts : PopOff(h)
    \/ \E h \in SmpHarts : IntrOn(h)
    \/ \E h \in SmpHarts : IntrOff(h)
    \/ \E h \in SmpHarts : Acquire(h)
    \/ \E h \in SmpHarts : SetCpuid(h)
    \/ \E h \in SmpHarts : Release(h)
    \/ \E h \in SmpHarts : Return(h)

SpecLock == InitLock /\ [][NextLock]_vars

\* ================================================================ properties
ZoneFrames(z) == IF z = "k" THEN KernFrames ELSE UserFrames
Allocated(z) == out \cap ZoneFrames(z)

\* C1: in every state the allocator reaches without halting, each region has
\* as many frames on its list plus handed out as it was given by pmem_init,
\* and its stored counter is the real number of free frames (sys, lab) or of
\* allocated frames (week3).
CountersAgree ==
    panicked = "" =>
        \A z \in {"k", "u"} :
            /\ Len(FreeList(z)) + Cardinality(Allocated(z)) = Cardinality(ZoneFrames(z))
            /\ zone[z].count = IF variant = "week3" THEN Cardinality(Allocated(z))
                               ELSE Len(FreeList(z))

\* What the translate operation of the line answers for va under the table
\* of a slot: vm_walkaddr in week3, uvm_get_phys_addr in sys.
Root(i) == procs[i].pgtbl
translate(i, va) ==
    IF variant = "week3" THEN vm_walkaddr(Machine, Root(i), va).ret
    ELSE uvm_get_phys_addr(Machine, Root(i), va).ret
HasTranslate == variant \in {"week3", "sys"} /\ panicked = ""
\* the permission sets under which translate answers for a mapped page:
\* vm_walkaddr takes an entry without R, W and X for a table, and
\* uvm_get_phys_addr answers for user pages only
Translatable(perm) ==
    IF variant = "week3" THEN BitAnd(perm, PTE_R + PTE_W + PTE_X) # 0
    ELSE Bit(perm, PTE_U)
UnmappedNow ==
    last.op = "vm_unmappages" => translate(last.slot, last.va) = 0

Times(f, z) == Cardinality({k \in 1..Len(FreeList(z)) : FreeList(z)[k] = f})
ZoneNameOf(f) == IF f \in KernFrames THEN "k" ELSE "u"
OtherZone(z) == IF z = "k" THEN "u" ELSE "k"
\* the frames the tree owned when destroy was called: its tables, root
\* included, and the frames its leaves mapped, the shared trampoline excluded
Owned == last.tbls \cup last.data
CountBefore(z) == IF z = "k" THEN last.cnt[1] ELSE last.cnt[2]

\* C3: when destroy has run on an address space, it has returned, every frame
\* the tree owned stands exactly once on the list of its own region and on no
\* other, none is still handed out, and the counter of each region has moved
\* by the number of owned frames of that region.
DestroyFreesAll ==
    last.op = "destroy" =>
        /\ panicked = ""
        /\ \A f \in Owned : /\ Times(f, ZoneNameOf(f)) = 1
                             /\ Times(f, OtherZone(ZoneNameOf(f))) = 0
                             /\ f \notin out
        /\ \A z \in {"k", "u"} :
              zone[z].count = IF variant = "week3"
                              THEN CountBefore(z) - Cardinality(Owned \cap ZoneFrames(z))
                              ELSE CountBefore(z) + Cardinality(Owned \cap ZoneFrames(z))

\* the leaves of the table `root` in memory m inside the extents the
\* duplicate recorded in c was given: heap range, stack pages, mmap regions
ExtentLeaves(m, root, c) ==
    {l \in TreeLeaves(m, root, 2, 0) : InExtents(variant, l.va, c.len, c.ustack, c.mmap)}
Duplicated ==
    /\ last'.op = "duplicate"
    /\ nops' = nops - 1
    /\ panicked' = ""

EachFrameOnce ==
    panicked = "" =>
        /\ \A z \in {"k", "u"} :
              LET q == FreeList(z)
              IN /\ Len(q) = Cardinality(Range(q))
                 /\ Range(q) \subseteq ZoneFrames(z)
                 /\ Range(q) \cap out = {}
                 /\ Range(q) \cup Allocated(z) = ZoneFrames(z)
        /\ twice = {}


\* C7: when proc_wait has torn a child down with proc_free, the child's trap
\* frame stands exactly once on the user list.
TrapFrameFreedOnce ==
    (last.op = "proc_wait" /\ last.pa # 0 /\ panicked = "") => Times(last.pa, "u") = 1

\* the level-0 entry for va under table tbl of `level` in memory m, 0 when
\* the tables on the way are missing
RECURSIVE EntryAt(_, _, _, _)
EntryAt(m, tbl, va, level) ==
    IF tbl \notin Frames THEN 0
    ELSE IF level = 0 THEN RdW(m[tbl], VA_TO_VPN(va, 0))
    ELSE IF IsLink(RdW(m[tbl], VA_TO_VPN(va, level)), level)
    THEN EntryAt(m, PTE_TO_PA(RdW(m[tbl], VA_TO_VPN(va, level))), va, level - 1)
    ELSE 0
MapsTrampoline(root) ==
    \E w \in {EntryAt(mem, root, TRAMPOLINE, 2)} :
        PteHas(w, PTE_V) /\ PTE_TO_PA(w) = trampoline
LiveRoots == {procs[i].pgtbl : i \in Slots} \ {0}

TablesInUse == LiveRoots \cup ({boot.test_pgtbl} \ {0})

\* C6: while the kernel runs, no valid leaf of a table in use refers to a
\* frame that stands on a free list.
NoLeafOnFreeFrame ==
    panicked = "" =>
        \A root \in TablesInUse : \A l \in Leaves(root) : PTE_TO_PA(l.pte) \notin OnFreeList


Misaligned(c) ==
    /\ c.op \in {"vm_mappages", "vm_unmappages"}
    /\ \/ c.va % PGSIZE # 0
       \/ c.len % PGSIZE # 0
       \/ c.op = "vm_mappages" /\ c.pa % PGSIZE # 0

\* C9: a call of vm_mappages or vm_unmappages whose va, pa or len is no
\* multiple of the page size changes no word of memory and no free list: it
\* writes no entry, creates no table and frees no frame.
RejectsMisaligned ==
    [][(nops' = nops - 1 /\ Misaligned(last')) => (mem' = mem /\ zone' = zone)]_vars


\* the walk for va in memory m, from table tbl of `level`, meets an entry
\* above level 0 that is not valid: vm_getpte has to create a table
RECURSIVE Missing(_, _, _, _)
Missing(m, tbl, va, level) ==
    IF level = 0 \/ tbl \notin Frames THEN FALSE
    ELSE IF PteHas(RdW(m[tbl], VA_TO_VPN(va, level)), PTE_V)
    THEN Missing(m, PTE_TO_PA(RdW(m[tbl], VA_TO_VPN(va, level))), va, level - 1)
    ELSE TRUE

\* C10: a vm_mappages on the kernel's own table that needs a new interior
\* table while the kernel region has no free frame ends in panic.
FatalWhenDrained ==
    [][(/\ nops' = nops - 1
        /\ last'.op = "kvm_map"
        /\ FreeList("k") = <<>>
        /\ Missing(mem, kernel_pgtbl, last'.va, 2)) => panicked' # ""]_vars

\* such a call has been made and has halted the kernel
FatalWhenDrainedSeen ==
    /\ last.op = "kvm_map"
    /\ FreeList("k") = <<>>
    /\ Missing(mem, kernel_pgtbl, last.va, 2)
    /\ panicked # ""


\* C11: pmem_alloc(false) called while the user list is empty returns 0, does
\* not halt the kernel, and leaves the user list, its counter and memory as
\* they were.
UserAllocFails ==
    [][(/\ nops' = nops - 1
        /\ last'.op = "pmem_alloc" /\ ~last'.freeit
        /\ FreeList("u") = <<>>)
       => (panicked' = "" /\ last'.ret = 0 /\ zone' = zone /\ mem' = mem)]_vars


\* C12: a sys_brk or sys_mmap call never halts the kernel, and a sys_mmap
\* whose range reaches the trap frame page or lies beyond it returns -1.
RequestFailsSoft ==
    [][(nops' = nops - 1 /\ last'.op \in {"sys_brk", "sys_mmap"})
       => /\ panicked' = ""
          /\ (last'.op = "sys_mmap" /\ last'.va + last'.len > TRAPFRAME) => last'.ret = 0 - 1]_vars

\* C13: the frame a successful pmem_alloc has just returned, of either
\* region, holds only zero words.
AllocZeroed ==
    (panicked = "" /\ last.op = "pmem_alloc" /\ last.ret # 0)
        => \A i \in 0..(NPTE - 1) : RdW(mem[last.ret], i) = 0

\* C14: pmem_free of an address that is misaligned or outside [begin, end) of
\* the region its tag names halts the kernel and changes no list and no
\* counter; in every state every node of the kernel list is a kernel
\* frame and every node of the user list a user frame.
StrayFreeRejected ==
    /\ [][(/\ nops' = nops - 1 /\ last'.op = "pmem_free"
           /\ \/ last'.pa % PGSIZE # 0
              \/ last'.pa < zone[ZoneOf(last'.freeit)].begin
              \/ last'.pa >= zone[ZoneOf(last'.freeit)].end)
          => (panicked' # "" /\ zone' = zone /\ mem' = mem)]_vars
    /\ [](FreeSet("k") \subseteq KernFrames /\ FreeSet("u") \subseteq UserFrames)

\* C15: a proc_fork that does not leave a RUNNABLE child, the user region
\* having run out while the parent's pages were being copied, returns with
\* the kernel running, every frame taken for the child handed back and the
\* process table as it was.
ForkFailureUndone ==
    [][(/\ nops' = nops - 1 /\ last'.op = "proc_fork"
        /\ \/ last'.slot2 = 0
           \/ procs'[last'.slot2].state # "RUNNABLE")
       => (panicked' = "" /\ out' = out /\ procs' = procs)]_vars

\* The frame address the ghost record of the mappings gives a user address.
UserMapped(i, va) == \E x \in maps : x.slot = i /\ x.va = PG_ROUND_DOWN(va)
UserPa(i, va) == (CHOOSE x \in maps : x.slot = i /\ x.va = PG_ROUND_DOWN(va)).pa + (va % PGSIZE)
Cells == {f + k : f \in Frames, k \in 0..(PGSIZE - 1)}
\* the words of memory that are no cells are the same in m0 and m1
SameOffCells(m0, m1) ==
    \A f \in Frames :
       /\ m1[f].fill = m0[f].fill
       /\ \A w \in (DOMAIN m0[f].ov \cup DOMAIN m1[f].ov) \ {Cell(k) : k \in 0..(PGSIZE - 1)} :
             RdW(m1[f], w) = RdW(m0[f], w)
CopiedIn(m0, m1, i, dst, src, len) ==
    \A a \in Cells :
       RdC(m1, a) = IF a \in dst..(dst + len - 1) THEN RdC(m0, UserPa(i, src + (a - dst)))
                    ELSE RdC(m0, a)
CopiedOut(m0, m1, i, dst, src, len) ==
    \A a \in Cells :
       RdC(m1, a) = IF \E j \in 0..(len - 1) : UserPa(i, dst + j) = a
                    THEN RdC(m0, src + (CHOOSE j \in 0..(len - 1) : UserPa(i, dst + j) = a))
                    ELSE RdC(m0, a)

\* C16: uvm_copyin and uvm_copyout over user addresses that are all mapped,
\* aligned or not, within a page or across a page boundary, return with the
\* destination range holding what the source range held and every other
\* word of memory as it was.
CopyExact ==
    [][(/\ nops' = nops - 1 /\ last'.op \in {"uvm_copyin", "uvm_copyout"}
        /\ \A j \in 0..(last'.len - 1) : UserMapped(last'.slot, last'.va + j))
       => /\ panicked' = ""
          /\ SameOffCells(mem, mem')
          /\ IF last'.op = "uvm_copyin"
             THEN CopiedIn(mem, mem', last'.slot, last'.pa, last'.va, last'.len)
             ELSE CopiedOut(mem, mem', last'.slot, last'.va, last'.pa, last'.len)]_vars

\* C17: uvm_copyin, uvm_copyout and uvm_copyin_str handed a user range whose
\* first page, or for the two plain copies a later page, is not mapped return
\* with the kernel running.
UnmappedCopySoft ==
    [][(/\ nops' = nops - 1
        /\ last'.op \in {"uvm_copyin", "uvm_copyout", "uvm_copyin_str"}
        /\ last'.len > 0
        /\ \/ ~UserMapped(last'.slot, last'.va)
           \/ /\ last'.op # "uvm_copyin_str"
              /\ \E j \in 0..(last'.len - 1) : ~UserMapped(last'.slot, last'.va + j))
       => panicked' = ""]_vars

\* C18: a uvm_copyin_str that returns has written no cell outside the first
\* maxlen cells of the destination, has left a zero among those cells, and
\* every destination cell before that zero holds the source cell.
StringBounded ==
    [][(/\ nops' = nops - 1 /\ last'.op = "uvm_copyin_str"
        /\ last'.len > 0 /\ panicked' = "")
       => /\ SameOffCells(mem, mem')
          /\ \A a \in Cells \ (last'.pa..(last'.pa + last'.len - 1)) : RdC(mem', a) = RdC(mem, a)
          /\ \E j \in 0..(last'.len - 1) : RdC(mem', last'.pa + j) = 0
          /\ \A j \in 0..(last'.len - 1) :
                (\A k \in 0..j : RdC(mem', last'.pa + k) # 0 /\ UserMapped(last'.slot, last'.va + k))
                   => RdC(mem', last'.pa + j) = RdC(mem, UserPa(last'.slot, last'.va + j))]_vars

\* C19: vm_getpte, vm_mappages and vm_unmappages handed an address at or
\* above VA_MAX write no table entry and allocate nothing, whether creation
\* is allowed or not.
TopVaRejected ==
    [][(/\ nops' = nops - 1
        /\ last'.op \in {"vm_getpte", "vm_mappages", "vm_unmappages"}
        /\ last'.va >= TopVa)
       => (mem' = mem /\ zone' = zone)]_vars

\* C20: vm_mappages of one page on a virtual page that is mapped already
\* returns with the kernel running and the leaf holding the frame number of
\* the new pa, the new permissions and PTE_V, nothing else.
RemapOverwrites ==
    [][(/\ nops' = nops - 1 /\ last'.op = "vm_mappages"
        /\ last'.va % PGSIZE = 0 /\ last'.len = PGSIZE
        /\ \E x \in maps : x.slot = last'.slot /\ x.va = last'.va)
       => /\ panicked' = ""
          /\ [va |-> last'.va, pte |-> PA_TO_PTE(last'.pa) + BitOr(last'.perm, PTE_V)]
                \in TreeLeaves(mem', procs[last'.slot].pgtbl, 2, 0)]_vars

\* C21: vm_unmappages of a page that has no valid leaf, the walk giving no
\* entry or an entry without PTE_V, halts the kernel and leaves the free
\* lists, the counters and every table as they were.
UnmapMissingFatal ==
    [][(/\ nops' = nops - 1 /\ last'.op = "vm_unmappages"
        /\ last'.va % PGSIZE = 0
        /\ ~\E x \in maps : x.slot = last'.slot /\ x.va = last'.va)
       => (panicked' # "" /\ zone' = zone /\ mem' = mem)]_vars


\* Frames a hart has taken off a list and not yet returned to its caller, or
\* was given by its caller and has not yet put on a list.
Carries(h) ==
    LET c == cpus.hart[h]
    IN \/ c.op = "pmem_alloc" /\ c.node # 0 /\ c.pc \in {"count", "release", "zero", "ret"}
       \/ c.op = "pmem_free" /\ c.pc \in {"fill", "acquire", "cpuid", "link", "sethead"}
InFlight(z) == {cpus.hart[h].node : h \in {g \in Harts : Carries(g) /\ HartZone(g) = z}}

\* C22: with the harts of lab inside pmem_alloc and pmem_free at once, no
\* hart halts, no frame is handed out while it is handed out, no two harts
\* carry the same frame, every frame of a region is on its list, handed out
\* or carried by one hart and by nothing else, and whenever the lock of a
\* region is free its counter is the length of its list.
SmpSequential ==
    variant = "lab" =>
        /\ panicked = ""
        /\ twice = {}
        /\ \A h, g \in Harts :
              h # g /\ Carries(h) /\ Carries(g) => cpus.hart[h].node # cpus.hart[g].node
        /\ \A z \in {"k", "u"} :
              /\ ZoneFrames(z) = FreeSet(z) \cup Allocated(z) \cup InFlight(z)
              /\ FreeSet(z) \cap Allocated(z) = {}
              /\ FreeSet(z) \cap InFlight(z) = {}
              /\ Allocated(z) \cap InFlight(z) = {}
              /\ Len(FreeList(z)) = Cardinality(FreeSet(z))
              /\ cpus.lock[z].locked = 0 => zone[z].count = Len(FreeList(z))

\* one hart spins on the lock of a region while another is inside its
\* critical section, after a pmem_alloc has returned a frame
SmpSequentialSeen ==
    /\ variant = "lab"
    /\ last.op = "pmem_alloc" /\ last.ret # 0
    /\ \E h, g \in Harts :
          /\ h # g
          /\ HartZone(h) = HartZone(g)
          /\ cpus.hart[h].pc = "acquire"
          /\ cpus.hart[g].pc \in {"unlink", "sethead", "count"}

\* the hart is between its test-and-set and its release of a lock
InCritical(h) == cpus.hart[h].pc \in {"cpuid", "read", "unlink", "link", "sethead", "count", "release"}

\* C23: a hart that stands at the test-and-set of spinlock_acquire for one
\* region is never kept there by a hart that is inside the critical section
\* of the other region: the two regions have two locks.
RegionsIndependent ==
    \A h, g \in Harts :
        (/\ cpus.hart[h].pc = "acquire"
         /\ InCritical(g)
         /\ cpus.hart[h].in_kernel # cpus.hart[g].in_kernel)
        => ~TestAndSet(cpus, HartLock(h))

\* C24: in main() only hart 0 changes kernel_pgtbl, a hart that has written
\* satp wrote the root of a table kvm_init had finished, no hart halts in
\* kvm_inithart, and a hart in its final loop has written satp.
MainOrdered ==
    /\ panicked # "kvm_inithart: kernel page table not initialized"
    /\ \A h \in Harts :
          /\ boot.satp[h] # NoSatp =>
                boot.satp[h].kvm = "done" /\ boot.satp[h].root = kernel_pgtbl
          /\ Steady(h) => boot.satp[h] # NoSatp

\* C25: the page directly below the user stack of a process has no valid
\* leaf in the table of the process, whatever sys_brk and sys_mmap calls the
\* process has made.
GuardUnmapped ==
    \A p \in Slots :
        (panicked = "" /\ procs[p].state = "RUNNABLE")
        => ~PteHas(EntryAt(mem, procs[p].pgtbl, GuardVa(procs[p]), 2), PTE_V)

\* the leaf for va under root is valid, points to frame pa and has exactly
\* the flags `perm` among R, W, X and U
LeafIs(root, va, pa, perm) ==
    \E w \in {EntryAt(mem, root, va, 2)} :
        /\ PteHas(w, PTE_V)
        /\ PTE_TO_PA(w) = pa
        /\ BitAnd(PTE_FLAGS(w), PTE_R + PTE_W + PTE_X + PTE_U) = perm

\* C26: while the kernel runs, the kernel table and the table of every
\* process map TRAMPOLINE to the trampoline frame with R and X and without
\* W and U, and the table of every process maps TRAPFRAME to the trap frame
\* of the process with R and W and without X and U.
TrapPagesFixed ==
    panicked = "" =>
        /\ kernel_pgtbl # 0 /\ boot.kvm \in {"none", "done"} =>
              LeafIs(kernel_pgtbl, TRAMPOLINE, trampoline, PTE_R + PTE_X)
        /\ \A p \in Slots : procs[p].pgtbl # 0 =>
              /\ LeafIs(procs[p].pgtbl, TRAMPOLINE, trampoline, PTE_R + PTE_X)
              /\ LeafIs(procs[p].pgtbl, TRAPFRAME, procs[p].tf, PTE_R + PTE_W)

\* a leaf of the kernel table, by the frame and the permissions it gives
KLeaves == Leaves(kernel_pgtbl)
LeafPa(l) == PTE_TO_PA(l.pte)
LeafRWX(l, r, w, x) ==
    /\ PteHas(l.pte, PTE_R) = r /\ PteHas(l.pte, PTE_W) = w /\ PteHas(l.pte, PTE_X) = x
KOffset == IF variant = "week3" THEN KERN_VA_OFFSET ELSE 0
KStackVas == {KSTACK(c) : c \in Harts}
LinearLeaf(l) ==
    IF LeafPa(l) < KERNEL_BASE
    THEN l.va = LeafPa(l) /\ LeafRWX(l, TRUE, TRUE, FALSE)
    ELSE /\ l.va = LeafPa(l) + KOffset
         /\ LeafPa(l) < ALLOC_END
         /\ IF LeafPa(l) < etext THEN LeafRWX(l, TRUE, FALSE, TRUE)
            ELSE LeafRWX(l, TRUE, TRUE, FALSE)

FirstProcLayout ==
    (panicked = "" /\ procs[proczero].state # "UNUSED") =>
        /\ \A l \in Leaves(procs[proczero].pgtbl) : l.va # 0 /\ l.va # USER_CODE + PGSIZE
        /\ \E l \in Leaves(procs[proczero].pgtbl) : l.va = USER_CODE /\ PteHas(l.pte, PTE_U)
        /\ procs[proczero].heap_top = USER_CODE + PGSIZE

\* the records of the pool right after mmap_init
Capacity(line) == Len(FreeSeq(mmap_init(line)))

\* C29: after mmap_init, whatever the calls, no record is on the free list
\* twice or both free and handed out, the node list_head names after
\* mmap_init is never handed out, the free records and the records handed
\* out together are as many as after mmap_init, and mmap_region_alloc on an
\* empty pool panics.
PoolSound ==
    pool # NoPool =>
        /\ last.op = "mmap_region_alloc" /\ last.cnt[1] = 0 => panicked # ""
        /\ panicked = "" =>
              /\ 0 \notin pool.handed
              /\ FreeNodes(pool) \cap pool.handed = {}
              /\ Cardinality(FreeNodes(pool)) = Len(FreeSeq(pool))
              /\ Len(FreeSeq(pool)) + Cardinality(pool.handed) = Capacity(pool.line)
              /\ last.op = "mmap_region_alloc" => last.ret \in pool.handed \ {NULL}

\* the tables a call of vm_mappages on one page has linked into the tree of
\* `root`, between the memory `m` and the memory `n`
NewTables(m, n, root) == TreeTables(n, root, 2) \ TreeTables(m, root, 2)

\* C30: every table the walk of vm_mappages links in is a frame of the
\* kernel region with no valid entry but the one the call goes on to fill,
\* sits behind an entry with V and without R, W and X, and the tables that
\* were in the tree stay in it.
WalkCreatesKernelTables ==
    [][(last'.op = "vm_mappages" /\ panicked' = "") =>
          /\ TreeTables(mem, procs[last'.slot].pgtbl, 2)
                \subseteq TreeTables(mem', procs[last'.slot].pgtbl, 2)
          /\ \A t \in NewTables(mem, mem', procs[last'.slot].pgtbl) :
                /\ t \in KernFrames
                /\ Cardinality(ValidAt(mem'[t])) = 1
                /\ \E u \in TreeTables(mem', procs[last'.slot].pgtbl, 2) :
                   \E j \in ValidAt(mem'[u]) :
                      /\ PTE_TO_PA(RdW(mem'[u], j)) = t
                      /\ ~PteHas(RdW(mem'[u], j), PTE_R)
                      /\ ~PteHas(RdW(mem'[u], j), PTE_W)
                      /\ ~PteHas(RdW(mem'[u], j), PTE_X)]_vars

\* the pages of the range the last call went over
LastPages == {last.va + k * PGSIZE : k \in 0..((last.len \div PGSIZE) - 1)}

\* C31: after vm_unmappages, uvm_munmap or a sys_brk that shrinks the heap,
\* the leaf entry of every page of the range is the word 0, with or without
\* the frame being freed.
RemovedLeafZero ==
    (/\ panicked = ""
     /\ last.op \in {"vm_unmappages", "uvm_munmap", "sys_brk"}
     /\ procs[last.slot].pgtbl # 0)
    => \A va \in LastPages : EntryAt(mem, procs[last.slot].pgtbl, va, 2) = 0

\* the leaf word of va in the table of the process the call names, before
\* the call
LeafBefore(c) == EntryAt(mem, procs[c.slot].pgtbl, c.va, 2)

\* C32: a vm_unmappages of a mapped page with freeit puts the frame of the
\* page at the head of the user free list, whatever its address, and the
\* next pmem_alloc of the user region returns it; without freeit the two
\* free lists stay as they are.
UnmapFreesToUser ==
    [][(/\ last'.op = "vm_unmappages" /\ nops' = nops - 1 /\ panicked' = ""
        /\ PteHas(LeafBefore(last'), PTE_V))
       => IF last'.freeit
          THEN /\ zone'["u"].head = PTE_TO_PA(LeafBefore(last'))
               /\ pmem_alloc(Machine', FALSE).ret = PTE_TO_PA(LeafBefore(last'))
          ELSE /\ zone' = zone
               /\ \A z \in {"k", "u"} :
                     ListFrom(mem', zone'[z].head, NFrames + 1) = FreeList(z)]_vars

\* a parent asleep in proc_wait whose child c has entered proc_exit
AsleepInWait(p, c) ==
    /\ panicked = ""
    /\ procs[p].state = "SLEEPING" /\ procs[p].ctx.pc = "w569"
    /\ procs[c].parent = p /\ procs[c].state = "RUNNING" /\ procs[c].ctx.pc = "e453"
\* proc_wait of p has returned the pid of c and the slot of c is free
Reaped(p, c) ==
    procs[p].ctx.pc = "user" /\ procs[p].ctx.ret = c /\ procs[c].state = "UNUSED"

\* C33: a parent asleep in proc_wait whose child calls proc_exit eventually
\* gets the pid of that child back, and the slot of the child becomes UNUSED
WaitReturnsChild ==
    \A p \in Slots : \A c \in Slots : AsleepInWait(p, c) ~> (panicked # "" \/ Reaped(p, c))

CopyOps3 == {"uvm_copyin", "uvm_copyout", "uvm_copyin_str"}
\* the leaf the copy of the last call went through first
CopyLeaf(c) == EntryAt(mem, procs[c.slot].pgtbl, c.va, 2)

\* C34: a copy that returns and has moved anything went through a leaf with the
\* user bit, and left the trap frame of the process as it was
CopyOnlyUserLeaves ==
    [][(last'.op \in CopyOps3 /\ panicked' = "" /\ mem' # mem)
       => /\ PteHas(CopyLeaf(last'), PTE_U)
          /\ mem'[procs[last'.slot].tf] = mem[procs[last'.slot].tf]]_vars

\* the frames of the user region a call has taken and not given back
TakenBy(before, after) == (after \ before) \cap UserFrames
\* the leaves of the tree under root, in memory m, that refer to frame f
LeavesTo(m, root, f) == {l \in TreeLeaves(m, root, 2, 0) : PTE_TO_PA(l.pte) = f}

\* C35: after a proc_fork that succeeded, every frame of the user region the
\* fork took is the trap frame of the child, a table of the child, or the
\* frame of exactly one leaf of the child
ForkLeavesNoOrphan ==
    [][(last'.op = "proc_fork" /\ last'.ret # 0 /\ panicked' = "")
       => \A f \in TakenBy(out, out') :
             \/ f = procs'[last'.slot2].tf
             \/ f \in TreeTables(mem', last'.ret, 2)
             \/ Cardinality(LeavesTo(mem', last'.ret, f)) = 1]_vars

\* vm_getpte with alloc = true has returned NULL
WalkFailed(c) == c.op = "vm_getpte" /\ c.freeit /\ c.ret = 0

\* C36: a walk with alloc = true that returns NULL leaves the tables of the
\* tree and the free lists as they were before the call
FailedWalkUndone ==
    [][(WalkFailed(last') /\ panicked' = "")
       => /\ TreeTables(mem', procs[last'.slot].pgtbl, 2) = TreeTables(mem, procs[last'.slot].pgtbl, 2)
          /\ zone' = zone]_vars

\* the list of free regions of the first process
FreeRegions == procs[proczero].mmap
\* the pages of the region r
RegionPages(r) == {r.begin + i * PGSIZE : i \in 0..(r.npages - 1)}

\* C37: the free regions of a process are sorted by begin, have pages, are
\* disjoint and not adjacent, and none of their pages has a valid leaf
FreeListSound ==
    (panicked = "" /\ procs[proczero].pgtbl # 0) =>
        /\ \A k \in 1..Len(FreeRegions) : FreeRegions[k].npages > 0
        /\ \A k \in 1..(Len(FreeRegions) - 1) : RegionEnd(FreeRegions[k]) < FreeRegions[k + 1].begin
        /\ \A k \in 1..Len(FreeRegions) : \A va \in RegionPages(FreeRegions[k]) :
              ~PteHas(EntryAt(mem, procs[proczero].pgtbl, va, 2), PTE_V)

\* a call that maps a region, and the call that unmaps the same region
MapThenUnmap(c, d) ==
    /\ \/ c.op = "uvm_mmap" /\ d.op = "uvm_munmap"
       \/ c.op = "sys_mmap" /\ d.op = "sys_munmap" /\ c.ret = c.va /\ d.ret = 0
    /\ d.va = c.va /\ d.len = c.len

\* C38: after uvm_mmap and uvm_munmap of the same region the pool has as many
\* free records, and the user region as many free frames, as before the pair
MapUnmapRoundTrip ==
    [][(MapThenUnmap(last, last') /\ panicked' = "")
       => /\ Len(FreeSeq(pool')) = last.cnt[1]
          /\ Len(ListFrom(mem', zone'["u"].head, NFrames + 1)) = last.cnt[2]]_vars

\* the target of the sys_brk call c, the first page of the user image (in sys
\* the image is at address 0 and the heap starts at UvmTop: the first page of
\* the heap), and the pages from a up to b
BrkTarget(c) == IF variant = "sys" THEN c.pa ELSE c.va
HeapBase == IF variant = "sys" THEN UvmTop ELSE PGSIZE
PagesFrom(a, b) == {a + i * PGSIZE : i \in 0..(((b - a) + PGSIZE - 1) \div PGSIZE - 1)}

\* C39: a sys_brk that succeeds for a nonzero target leaves heap_top at the
\* target, every page below it with a valid user leaf, and the heap pages at
\* or above the rounded-up heap_top without one
BrkReachesTarget ==
    [][(last'.op = "sys_brk" /\ BrkTarget(last') # 0 /\ last'.ret # 0 - 1 /\ panicked' = "")
       => /\ procs'[last'.slot].heap_top = BrkTarget(last')
          /\ \A va \in PagesFrom(HeapBase, procs'[last'.slot].heap_top) :
                /\ PteHas(EntryAt(mem', procs[last'.slot].pgtbl, va, 2), PTE_V)
                /\ PteHas(EntryAt(mem', procs[last'.slot].pgtbl, va, 2), PTE_U)
          /\ \A va \in PagesFrom(PG_ROUND_UP(procs'[last'.slot].heap_top),
                                 PG_ROUND_UP(procs[last'.slot].heap_top)) :
                ~PteHas(EntryAt(mem', procs[last'.slot].pgtbl, va, 2), PTE_V)]_vars

\* C40: on every hart and for every spinlock, no two harts are between a
\* completed spinlock_acquire and the matching spinlock_release of the same
\* lock; a hart that is between the two for some lock has noff > 0 and its
\* interrupts off; and a pop_off turns the interrupts of its hart on only
\* when it brings noff to 0 and the interrupts were on before the outermost
\* push_off.
LockExcludes ==
    \A h, g \in Harts : h # g => cpus.cpu[h].holds \cap cpus.cpu[g].holds = {}
HolderMasked ==
    \A h \in Harts : cpus.cpu[h].holds # {} => cpus.cpu[h].noff > 0 /\ cpus.cpu[h].sie = 0
PopTurnsOn(h) ==
    /\ cpus'.cpu[h].noff = cpus.cpu[h].noff - 1
    /\ cpus.cpu[h].sie = 0
    /\ cpus'.cpu[h].sie = 1
SpinlockNesting ==
    [][/\ LockExcludes'
       /\ HolderMasked'
       /\ \A h \in Harts : PopTurnsOn(h) => cpus'.cpu[h].noff = 0 /\ cpus.cpu[h].outer = 1]_vars

\* a hart is back from a spinlock_release that turned its interrupts on
\* again, while another hart holds a lock with its interrupts off
SpinlockNestingSeen ==
    /\ panicked = ""
    /\ last.op = "spinlock_release"
    /\ \E h, g \in Harts :
          /\ h # g
          /\ last.slot = h
          /\ cpus.cpu[h].noff = 0 /\ cpus.cpu[h].sie = 1 /\ cpus.cpu[h].outer = 1
          /\ cpus.cpu[g].holds # {} /\ cpus.cpu[g].noff > 0 /\ cpus.cpu[g].sie = 0

====
